---- MODULE Spec2Model ----
(***************************************************************************)
(* The unified content-generation workflow of doc_generator: the shared    *)
(* source-preparation nodes, the router, the five branches and the retry   *)
(* edge of the document branch.                                            *)
(*                                                                         *)
(* A workflow state is a record (UnifiedWorkflowState).  A node is an      *)
(* operator from a state and the outcomes of the collaborators it calls    *)
(* to the state it returns.  An error message is a sequence of text        *)
(* fragments (a literal prefix followed by the text of the exception), so  *)
(* that Python's  "x" in msg  is membership of a fragment.                 *)
(***************************************************************************)
EXTENDS Naturals, Sequences, FiniteSets, TLC

VARIABLES
    state,          \* the UnifiedWorkflowState threaded through the nodes
    pc,             \* the node (or routing function) that runs next
    initial_state,  \* the state the run function built (kept for its except:)
    trace,          \* the nodes executed so far, in order
    escaped,        \* TRUE once an exception has propagated out of a node
    injected,       \* collaborator failures injected so far in document steps
    gen_results,    \* what each generate_output invocation did, in order
    val_results,    \* what each validate_output invocation did, in order
    checkpoint,     \* the engine's latest checkpoint of the running thread
    saver,          \* the checkpointer: session id -> stored channel values
    session_metadata, \* CheckpointManager._session_metadata
    now,            \* time.time()
    call,           \* the arguments and locals of the running invocation
    swept,          \* session ids the expiry sweep removed (not re-created)
    sid_user,       \* user id of the generate_session_id calls
    sid_calls,      \* the generate_session_id calls made, with their results
    cls,            \* CheckpointManager class attributes, instance, module global
    thr,            \* per thread: its position in get_checkpoint_manager()
    meta_map,       \* the session map shared by concurrent store calls
    meta_thr,       \* per thread: its store call, position and locals
    slot,           \* the checkpoint slot of the one session id raced on
    runs,           \* per concurrent invocation: its position and locals
    environ,        \* os.environ: the API key variables of the process
    llm,            \* per invocation: its LLM call, position and locals
    tts,            \* synthesize_with_retry: its arguments, locals and effects
    jx,             \* extract_json: the text given and the value returned
    img,            \* an image node's invocation: its state and service calls
    api,            \* a generation route's request: its headers and response
    tmpf,           \* the temp files written and the merges writing them
    norm,           \* mind-map normalization: the parsed JSON and the result
    upl,            \* the upload store and a lookup of a file id in it
    evs             \* a generation service call and the events it emitted

(* The variables of the workflow engine, of the session layer, of the      *)
(* session key function and of the store's construction                    *)
wfvars == <<state, pc, initial_state, trace, escaped, injected, gen_results,
            val_results, checkpoint>>

sessvars == <<saver, session_metadata, now, call, swept>>

sidvars == <<sid_user, sid_calls>>

singvars == <<cls, thr>>

(* The variables of the layers around the engine: concurrent calls on the  *)
(* session map                                                             *)
metavars == <<meta_map, meta_thr>>

racevars == <<slot, runs>>

envvars == <<environ, llm>>

layervars == <<metavars, racevars, envvars, tts, jx, img, api, tmpf, norm, upl,
               evs>>

vars == <<wfvars, sessvars, sidvars, singvars, layervars>>

-----------------------------------------------------------------------------
(* Bounds of the model *)

MaxSources == 2

MaxInjected == 1

MaxGenerateCalls == 6

(* Program constants *)

max_retries == 3

-----------------------------------------------------------------------------
(* Vocabulary *)

DocumentTypes == {"article_pdf", "presentation_pptx"}

OutputTypes == DocumentTypes \cup {"podcast", "mindmap", "image_generate", "image_edit"}

Branches == {"document", "podcast", "mindmap", "image_generate", "image_edit"}

ExcText == {"boom"}

Contains(msg, fragment) == \E i \in 1..Len(msg) : msg[i] = fragment

Last(s) == s[Len(s)]

-----------------------------------------------------------------------------
(* unified_state helpers *)

is_document_type(output_type) == output_type \in DocumentTypes

requires_content_extraction(output_type) == output_type # "image_edit"

get_output_branch(s) ==
    IF is_document_type(s.output_type) THEN "document" ELSE s.output_type

-----------------------------------------------------------------------------
(* Request sources and the collaborators that read them *)

TextItem(c) == [type |-> "text", file_id |-> "", url |-> "", content |-> c]

UrlItem(u) == [type |-> "url", file_id |-> "", url |-> u, content |-> ""]

FileItem(f) == [type |-> "file", file_id |-> f, url |-> "", content |-> ""]

SourceItems ==
    {TextItem(" Alpha "), TextItem(" "), UrlItem("http://a"),
     FileItem("doc1"), FileItem("sheet1")}

SourceLists == UNION {[1..n -> SourceItems] : n \in 0..MaxSources}

(* Document requests: every list of at most one item, and two longer lists *)
DocSourceLists ==
    {<<>>} \cup {<<item>> : item \in SourceItems}
           \cup {<<TextItem(" Alpha "), UrlItem("http://a")>>,
                 <<FileItem("doc1"), FileItem("sheet1")>>}

(* str.strip() on the texts of the model *)
Strip(text) ==
    CASE text = " Alpha " -> "Alpha"
      [] text = " " -> ""
      [] text = " p " -> "p"
      [] OTHER -> text

(* StorageService.get_upload_path / resolve_upload_path: "" stands for None *)
resolve_upload_path(file_id) ==
    CASE file_id = "doc1" -> "/uploads/doc1.pdf"
      [] file_id = "sheet1" -> "/uploads/sheet1.xlsx"
      [] OTHER -> ""

Suffix(path) ==
    CASE path = "/uploads/doc1.pdf" -> ".pdf"
      [] path = "/uploads/sheet1.xlsx" -> ".xlsx"
      [] OTHER -> ""

ParserOutcomes == {"content", "empty", "raise"}

-----------------------------------------------------------------------------
(* source_utils: the skip flag kept in metadata *)

should_skip_source_processing(s) == s.metadata.skip_source_processing

skip_source_reason(s) == s.metadata.skip_source_reason

set_skip_source_processing(s, reason) ==
    [s EXCEPT !.metadata.skip_source_processing = TRUE,
              !.metadata.skip_source_reason = reason]

(* Faulty variant: the message replaces the list *)
AppendError_replacing(s, msg) == [s EXCEPT !.errors = <<msg>>]

AppendError(s, msg) == [s EXCEPT !.errors = Append(s.errors, msg)]

-----------------------------------------------------------------------------
(* validate_sources_node.  path_exists is Path(input_path).exists(). *)

(* Faulty variant: the no-sources guard sets the skip reason without an error *)
validate_sources_node_silent(s, path_exists) ==
    IF ~requires_content_extraction(s.output_type)
    THEN set_skip_source_processing(s, "not_required")
    ELSE IF /\ s.metadata.reused_content
            /\ s.raw_content # <<>>
            /\ \/ ~is_document_type(s.output_type)
               \/ (s.input_path # "" /\ path_exists)
    THEN set_skip_source_processing(s, "reused_content")
    ELSE IF s.request_data.sources = <<>>
    THEN IF s.output_type = "image_generate" /\ Strip(s.request_data.prompt) # ""
         THEN set_skip_source_processing(s, "direct_prompt")
         ELSE set_skip_source_processing(s, "no_sources")
    ELSE s

validate_sources_node(s, path_exists) ==
    IF ~requires_content_extraction(s.output_type)
    THEN set_skip_source_processing(s, "not_required")
    ELSE IF /\ s.metadata.reused_content
            /\ s.raw_content # <<>>
            /\ \/ ~is_document_type(s.output_type)
               \/ (s.input_path # "" /\ path_exists)
    THEN set_skip_source_processing(s, "reused_content")
    ELSE IF s.request_data.sources = <<>>
    THEN IF s.output_type = "image_generate" /\ Strip(s.request_data.prompt) # ""
         THEN set_skip_source_processing(s, "direct_prompt")
         ELSE set_skip_source_processing(
                  AppendError(s, <<"No sources provided">>), "no_sources")
    ELSE s

-----------------------------------------------------------------------------
(* resolve_sources_node.  storage_exc is the text of an exception raised    *)
(* inside the try block ("" when none is raised).                           *)

ResolvedItem(src, path) ==
    [type |-> src.type, file_path |-> path, file_id |-> src.file_id,
     url |-> src.url, content |-> Strip(src.content)]

(* The for loop from item i on: acc is resolved_sources, fid the first file  *)
(* id seen; excel is TRUE when the loop returned early on a spreadsheet.     *)
RECURSIVE ResolveLoop(_, _, _, _)
ResolveLoop(sources, i, acc, fid) ==
    IF i > Len(sources)
    THEN [excel |-> FALSE, resolved |-> acc, file_id |-> fid]
    ELSE LET src == sources[i] IN
      CASE src.type = "file" ->
             IF src.file_id = ""
             THEN ResolveLoop(sources, i + 1, acc, fid)
             ELSE LET fid2 == IF fid = "" THEN src.file_id ELSE fid
                      path == resolve_upload_path(src.file_id)
                  IN IF path = ""
                     THEN ResolveLoop(sources, i + 1, acc, fid2)
                     ELSE IF Suffix(path) \in {".xlsx", ".xls"}
                     THEN [excel |-> TRUE, resolved |-> acc, file_id |-> fid2]
                     ELSE ResolveLoop(sources, i + 1,
                                      Append(acc, ResolvedItem(src, path)), fid2)
        [] src.type = "url" ->
             IF src.url = ""
             THEN ResolveLoop(sources, i + 1, acc, fid)
             ELSE ResolveLoop(sources, i + 1, Append(acc, ResolvedItem(src, "")), fid)
        [] src.type = "text" ->
             IF Strip(src.content) # ""
             THEN ResolveLoop(sources, i + 1, Append(acc, ResolvedItem(src, "")), fid)
             ELSE ResolveLoop(sources, i + 1, acc, fid)
        [] OTHER -> ResolveLoop(sources, i + 1, acc, fid)

(* Faulty variant: honours the skip flag only for the reason not_required *)
resolve_sources_node_not_required_only(s, storage_exc) ==
    IF should_skip_source_processing(s) /\ skip_source_reason(s) = "not_required"
    THEN s
    ELSE IF storage_exc # ""
    THEN set_skip_source_processing(
             AppendError(s, <<"Source resolution failed", storage_exc>>),
             "resolution_failed")
    ELSE LET r == ResolveLoop(s.request_data.sources, 1, <<>>, "") IN
         IF r.excel
         THEN set_skip_source_processing(
                  AppendError(s, <<"Excel files are not supported.">>),
                  "unsupported_format")
         ELSE [s EXCEPT !.resolved_sources = r.resolved,
                        !.resolved_file_id =
                            IF r.file_id # "" THEN r.file_id ELSE @,
                        !.keys = @ \cup {"resolved_sources"}
                                   \cup (IF r.file_id # ""
                                         THEN {"resolved_file_id"} ELSE {})]

resolve_sources_node(s, storage_exc) ==
    IF should_skip_source_processing(s)
    THEN s
    ELSE IF storage_exc # ""
    THEN set_skip_source_processing(
             AppendError(s, <<"Source resolution failed", storage_exc>>),
             "resolution_failed")
    ELSE LET r == ResolveLoop(s.request_data.sources, 1, <<>>, "") IN
         IF r.excel
         THEN set_skip_source_processing(
                  AppendError(s, <<"Excel files are not supported.">>),
                  "unsupported_format")
         ELSE [s EXCEPT !.resolved_sources = r.resolved,
                        !.resolved_file_id =
                            IF r.file_id # "" THEN r.file_id ELSE @,
                        !.keys = @ \cup {"resolved_sources"}
                                   \cup (IF r.file_id # ""
                                         THEN {"resolved_file_id"} ELSE {})]

-----------------------------------------------------------------------------
(* extract_sources_node.  outcomes[i] is what the parser called for the     *)
(* i-th resolved source does; exc is the text of the exception it raises.   *)

Block(title, source, content) ==
    [title |-> title, source |-> source, content |-> content]

RECURSIVE ExtractLoop(_, _, _, _)
ExtractLoop(resolved, outcomes, i, acc) ==
    IF i > Len(resolved)
    THEN [raised |-> FALSE, blocks |-> acc]
    ELSE LET src == resolved[i] IN
      CASE src.type = "file" ->
             IF src.file_path = ""
             THEN ExtractLoop(resolved, outcomes, i + 1, acc)
             ELSE IF outcomes[i] = "raise"
             THEN [raised |-> TRUE, blocks |-> acc]
             ELSE IF outcomes[i] = "content"
             THEN ExtractLoop(resolved, outcomes, i + 1,
                      Append(acc, Block(src.file_id, src.file_path, "Doc text")))
             ELSE ExtractLoop(resolved, outcomes, i + 1, acc)
        [] src.type = "url" ->
             IF src.url = ""
             THEN ExtractLoop(resolved, outcomes, i + 1, acc)
             ELSE IF outcomes[i] = "raise"
             THEN [raised |-> TRUE, blocks |-> acc]
             ELSE IF outcomes[i] = "content"
             THEN ExtractLoop(resolved, outcomes, i + 1,
                      Append(acc, Block(src.url, src.url, "Web text")))
             ELSE ExtractLoop(resolved, outcomes, i + 1, acc)
        [] src.type = "text" ->
             IF Strip(src.content) # ""
             THEN ExtractLoop(resolved, outcomes, i + 1,
                      Append(acc, Block("Copied Text", "text", Strip(src.content))))
             ELSE ExtractLoop(resolved, outcomes, i + 1, acc)
        [] OTHER -> ExtractLoop(resolved, outcomes, i + 1, acc)

extract_sources_node(s, outcomes, exc) ==
    IF should_skip_source_processing(s)
    THEN s
    ELSE LET r == ExtractLoop(s.resolved_sources, outcomes, 1, <<>>) IN
         IF r.raised
         THEN set_skip_source_processing(
                  AppendError(s, <<"Content extraction failed", exc>>),
                  "extraction_failed")
         ELSE IF r.blocks = <<>>
         THEN set_skip_source_processing(
                  AppendError(s, <<"No valid sources provided">>),
                  "no_valid_sources")
         ELSE [s EXCEPT !.content_blocks = r.blocks,
                        !.keys = @ \cup {"content_blocks"},
                        !.metadata.source_count = Len(r.blocks)]

-----------------------------------------------------------------------------
(* merge_sources_node.  write_exc is the text of the exception raised by    *)
(* write_temp_markdown ("" when the write succeeds); the node has no try    *)
(* block, so the exception leaves the node.                                 *)

Section(header, source, body) ==
    [header |-> header, source |-> source, body |-> body]

TempPath == "/tmp/temp_input_new.md"

RECURSIVE merge_markdown_sources(_)
merge_markdown_sources(blocks) ==
    IF blocks = <<>>
    THEN <<>>
    ELSE LET b == Head(blocks) IN
         <<Section(b.title,
                   IF b.source # "" /\ b.source # "text" THEN b.source ELSE "",
                   b.content)>>
         \o merge_markdown_sources(Tail(blocks))

RECURSIVE JoinContents(_)
JoinContents(blocks) ==
    IF blocks = <<>>
    THEN <<>>
    ELSE (IF Strip(Head(blocks).content) # ""
          THEN <<Section("", "", Strip(Head(blocks).content))>>
          ELSE <<>>)
         \o JoinContents(Tail(blocks))

merge_sources_node(s, write_exc) ==
    IF should_skip_source_processing(s)
    THEN [raised |-> FALSE, st |-> s]
    ELSE IF s.content_blocks = <<>>
    THEN [raised |-> FALSE, st |-> s]
    ELSE IF is_document_type(s.output_type) /\ write_exc # ""
    THEN [raised |-> TRUE, st |-> s]
    ELSE [raised |-> FALSE,
          st |-> [s EXCEPT
              !.raw_content =
                  IF is_document_type(s.output_type)
                  THEN merge_markdown_sources(s.content_blocks)
                  ELSE JoinContents(s.content_blocks),
              !.input_path =
                  IF is_document_type(s.output_type) THEN TempPath ELSE @,
              !.metadata.file_id =
                  IF "resolved_file_id" \in s.keys /\ s.resolved_file_id # ""
                  THEN s.resolved_file_id ELSE @,
              !.resolved_file_id = "",
              !.content_blocks = <<>>,
              !.resolved_sources = <<>>,
              !.keys = @ \ {"resolved_file_id", "content_blocks",
                            "resolved_sources"}]]

-----------------------------------------------------------------------------
(* Document branch *)

(* _wrap_document_node.wrapped: the fields of the node's result are merged  *)
(* back and completed is set when there is an output and no error.          *)
wrapped(result) ==
    [result EXCEPT !.completed =
        IF result.output_path # "" /\ result.errors = <<>> THEN TRUE ELSE @]

(* The document nodes whose code is not part of the sources read here       *)
(* (detect_format, parse_content, enhance_content, generate_images,         *)
(* describe_images, persist_image_manifest): total, one message on failure. *)
DocStepNodes ==
    {"doc_detect_format", "doc_parse_content", "doc_enhance_content",
     "doc_generate_images", "doc_describe_images", "doc_persist_images"}

document_step_node(s, node, exc) ==
    IF exc = "" THEN s ELSE AppendError(s, <<"Step failed", node, exc>>)

HasMarkdown(structured) == structured \in {"structured", "fallback"}

transform_content_node(s, exc) ==
    IF s.raw_content = <<>>
    THEN [s EXCEPT !.structured_content = "empty_document"]
    ELSE IF exc = ""
    THEN [s EXCEPT !.structured_content = "structured"]
    ELSE [AppendError(s, <<"Transformation failed", exc>>)
             EXCEPT !.structured_content = "fallback"]

GenerateOutcomes == {"ok", "GenerationError", "Exception"}

(* generate_output_node: the generator raises GenerationError when the      *)
(* structured content holds no markdown.                                    *)
generate_output_node(s, outcome, exc) ==
    IF outcome = "Exception"
    THEN AppendError(s, <<"Unexpected generation error", exc>>)
    ELSE IF ~HasMarkdown(s.structured_content)
    THEN AppendError(s, <<"Generation failed", "No content provided">>)
    ELSE IF outcome = "GenerationError"
    THEN AppendError(s, <<"Generation failed", exc>>)
    ELSE [s EXCEPT !.output_path = "/output/document"]

ValidateOutcomes == {"ok", "ValidationError", "Exception"}

validate_output_node(s, outcome, exc) ==
    CASE outcome = "ok" -> s
      [] outcome = "ValidationError" -> AppendError(s, <<"Validation failed", exc>>)
      [] OTHER -> AppendError(s, <<"Unexpected validation error", exc>>)

(* Faulty variant: the limit test lets one more retry through *)
should_retry_decision_past_limit(errors, retry_count) ==
    IF errors = <<>>
    THEN "end"
    ELSE IF retry_count > max_retries
    THEN "end"
    ELSE IF \/ Contains(Last(errors), "Generation failed")
            \/ Contains(Last(errors), "Validation failed")
    THEN "retry"
    ELSE "end"

(* Faulty variant: a failed validation is not retried *)
should_retry_decision_generation_only(errors, retry_count) ==
    IF errors = <<>>
    THEN "end"
    ELSE IF retry_count >= max_retries
    THEN "end"
    ELSE IF Contains(Last(errors), "Generation failed")
    THEN "retry"
    ELSE "end"

(* _should_retry_document: the decision, and the state it leaves *)
should_retry_decision(errors, retry_count) ==
    IF errors = <<>>
    THEN "end"
    ELSE IF retry_count >= max_retries
    THEN "end"
    ELSE IF \/ Contains(Last(errors), "Generation failed")
            \/ Contains(Last(errors), "Validation failed")
    THEN "retry"
    ELSE "end"

(* Faulty variant: the retry is taken without counting it *)
should_retry_document_uncounted(s) ==
    LET d == should_retry_decision(s.errors, s.metadata.retry_count) IN
    [decision |-> d, st |-> s]

should_retry_document(s) ==
    LET d == should_retry_decision(s.errors, s.metadata.retry_count) IN
    [decision |-> d,
     st |-> IF d = "retry"
            THEN [s EXCEPT !.metadata.retry_count = @ + 1]
            ELSE s]

-----------------------------------------------------------------------------
(* Mind map, podcast and image branches *)

(* A node of the LLM's tree JSON: has_children tells whether the dict has   *)
(* a "children" key.  NoNode stands for an absent or empty dict.            *)
Node(label, has_children, children) ==
    [label |-> label, has_children |-> has_children, children |-> children]

NoNode == Node("", FALSE, <<>>)

Leaf(label) == Node(label, FALSE, <<>>)

(* The mindmap_tree key is absent from the state *)
NoTree ==
    [title |-> "", summary |-> "", mode |-> "", source_count |-> 0,
     nodes |-> NoNode]

(* Faulty variant: the children are not parsed *)
parse_mindmap_item_flat(node_data) ==
    IF node_data = NoNode
    THEN Node("Unknown", TRUE, <<>>)
    ELSE Node(node_data.label, FALSE, <<>>)

(* _parse_mindmap_item: the result has a "children" key only when there     *)
(* are parsed children                                                      *)
RECURSIVE parse_mindmap_item(_)
parse_mindmap_item(node_data) ==
    IF node_data = NoNode
    THEN Node("Unknown", TRUE, <<>>)
    ELSE LET parsed_children ==
                 [i \in 1..Len(node_data.children) |->
                      parse_mindmap_item(node_data.children[i])]
         IN Node(node_data.label, parsed_children # <<>>, parsed_children)

(* _build_tree_structure (data has no "root", "nodes" or "label" key) *)
build_tree_structure(data, mode, source_count) ==
    LET central_node == IF data.central_node # NoNode
                        THEN data.central_node
                        ELSE Node(data.title, TRUE, <<>>)
    IN [title |-> data.title, summary |-> data.summary, mode |-> mode,
        source_count |-> source_count,
        nodes |-> parse_mindmap_item(central_node)]

(* What the LLM answers: JSON in the format the prompt asks for, JSON with  *)
(* an empty children list, JSON without a central node                      *)
TreeJson(title, central_node) ==
    [title |-> title, summary |-> "S", central_node |-> central_node]

LlmTreeJsons ==
    {TreeJson("T", Node("Root", TRUE, <<Leaf("Alpha")>>)),
     TreeJson("T2", Node("Root", TRUE,
                         <<Node("Branch", TRUE, <<Leaf("Alpha")>>),
                           Leaf("Beta")>>)),
     TreeJson("T3", Node("Root", TRUE, <<>>)),
     TreeJson("T4", NoNode)}

(* An answer from which no JSON object is extracted, an exception *)
LlmResponses ==
    {[kind |-> "json", data |-> d] : d \in LlmTreeJsons}
        \cup {[kind |-> k, data |-> TreeJson("", NoNode)] :
                 k \in {"none", "raise"}}

generate_mindmap_node(s, response, exc) ==
    IF s.raw_content = <<>>
    THEN AppendError(s, <<"No content for mind map">>)
    ELSE CASE response.kind = "json" ->
                [s EXCEPT !.mindmap_tree =
                              build_tree_structure(response.data, "summarize",
                                                   s.metadata.source_count),
                          !.completed = TRUE]
           [] response.kind = "none" ->
                AppendError(s, <<"Failed to build mind map">>)
           [] OTHER -> AppendError(s, <<"Mind map generation failed", exc>>)

generate_podcast_script_node(s, outcome, exc) ==
    IF s.raw_content = <<>>
    THEN AppendError(s, <<"No content for podcast script">>)
    ELSE CASE outcome = "ok" -> [s EXCEPT !.podcast_dialogue = <<"line">>]
           [] outcome = "empty" -> [s EXCEPT !.podcast_dialogue = <<>>]
           [] outcome = "none" ->
                AppendError(s, <<"Failed to parse podcast script">>)
           [] OTHER -> AppendError(s, <<"Script generation failed", exc>>)

synthesize_podcast_audio_node(s, outcome, exc) ==
    IF s.podcast_dialogue = <<>>
    THEN AppendError(s, <<"No dialogue for audio synthesis">>)
    ELSE IF s.gemini_api_key = ""
    THEN AppendError(s, <<"Gemini API key required for TTS">>)
    ELSE IF outcome = "ok"
    THEN [s EXCEPT !.podcast_audio = "pcm", !.completed = TRUE]
    ELSE AppendError(s, <<"Audio synthesis failed", exc>>)

ImageOutcomes == {"ok", "none", "unavailable", "raise"}

(* Faulty variant: an empty answer of the image service is not reported *)
generate_image_node_silent(s, outcome, exc) ==
    IF s.gemini_api_key = ""
    THEN AppendError(s, <<"Gemini API key required for image generation">>)
    ELSE IF s.request_data.prompt = ""
    THEN AppendError(s, <<"No prompt provided for image generation">>)
    ELSE CASE outcome = "ok" -> [s EXCEPT !.image_data = "image", !.completed = TRUE]
           [] outcome = "none" -> s
           [] outcome = "unavailable" ->
                AppendError(s, <<"Image service not available">>)
           [] OTHER -> AppendError(s, <<"Image generation failed", exc>>)

generate_image_node(s, outcome, exc) ==
    IF s.gemini_api_key = ""
    THEN AppendError(s, <<"Gemini API key required for image generation">>)
    ELSE IF s.request_data.prompt = ""
    THEN AppendError(s, <<"No prompt provided for image generation">>)
    ELSE CASE outcome = "ok" -> [s EXCEPT !.image_data = "image", !.completed = TRUE]
           [] outcome = "none" ->
                AppendError(s, <<"Image generation returned no data">>)
           [] outcome = "unavailable" ->
                AppendError(s, <<"Image service not available">>)
           [] OTHER -> AppendError(s, <<"Image generation failed", exc>>)

edit_image_node(s, outcome, exc) ==
    IF s.gemini_api_key = ""
    THEN AppendError(s, <<"Gemini API key required for image editing">>)
    ELSE IF s.request_data.image = ""
    THEN AppendError(s, <<"No source image provided for editing">>)
    ELSE IF s.request_data.prompt = ""
    THEN AppendError(s, <<"No edit instructions provided">>)
    ELSE CASE outcome = "ok" -> [s EXCEPT !.image_data = "edited", !.completed = TRUE]
           [] outcome = "none" -> AppendError(s, <<"Image editing returned no data">>)
           [] outcome = "unavailable" ->
                AppendError(s, <<"Image service not available">>)
           [] OTHER -> AppendError(s, <<"Image editing failed", exc>>)

-----------------------------------------------------------------------------
(* The initial state built by run_unified_workflow_with_session *)

NoCheckpoint == [raw_content |-> <<>>, structured_content |-> "", input_path |-> ""]

Checkpoints ==
    {NoCheckpoint,
     [raw_content |-> <<Section("Copied Text", "", "Cached")>>,
      structured_content |-> "structured",
      input_path |-> "/tmp/temp_input_old.md"],
     [raw_content |-> <<Section("", "", "Cached")>>,
      structured_content |-> "",
      input_path |-> ""]}

Request(sources, prompt, image) ==
    [sources |-> sources, prompt |-> prompt, image |-> image]

RequestsFor(output_type) ==
    CASE output_type = "image_generate" ->
           {Request(src, p, "") : src \in SourceLists, p \in {"", " ", "p"}}
      [] output_type = "image_edit" ->
           {Request(<<>>, p, i) : p \in {"", "p"}, i \in {"", "img"}}
      [] output_type \in DocumentTypes ->
           {Request(src, "", "") : src \in DocSourceLists}
      [] OTHER -> {Request(src, "", "") : src \in SourceLists}
                      \cup {Request(<<>>, p, "") : p \in {" ", "p"}}

KeysFor(output_type) ==
    IF output_type \in {"podcast", "image_generate", "image_edit"}
    THEN {"", "key"}
    ELSE {"key"}

build_initial_state(output_type, request_data, key, existing) ==
    LET has_existing_content == existing.raw_content # <<>> IN
    [output_type |-> output_type,
     request_data |-> request_data,
     gemini_api_key |-> key,
     input_path |-> IF has_existing_content THEN existing.input_path ELSE "",
     raw_content |-> IF has_existing_content THEN existing.raw_content ELSE <<>>,
     structured_content |->
         IF has_existing_content THEN existing.structured_content ELSE "",
     output_path |-> "",
     errors |-> <<>>,
     metadata |-> [skip_source_processing |-> FALSE,
                   skip_source_reason |-> "",
                   retry_count |-> 0,
                   reused_content |-> has_existing_content,
                   source_count |-> IF has_existing_content THEN 1 ELSE 0,
                   file_id |-> ""],
     completed |-> FALSE,
     keys |-> {},
     resolved_sources |-> <<>>,
     resolved_file_id |-> "",
     content_blocks |-> <<>>,
     mindmap_tree |-> NoTree,
     podcast_dialogue |-> <<>>,
     podcast_audio |-> "",
     image_data |-> ""]

InitialStates ==
    UNION {{build_initial_state(t, r, k, c) :
                r \in RequestsFor(t), k \in KeysFor(t), c \in Checkpoints} :
           t \in OutputTypes}

(* No session layer: one invocation, its checkpoint content given *)
(* The session_id argument left out (None) *)
NoSessionId ==
    [raised |-> "", prefix |-> "", hex_digits |-> 0, digest_of |-> <<>>]

NoCall ==
    [active |-> FALSE, n |-> 0, session_id |-> NoSessionId, sources |-> <<>>,
     user_id |-> "", output_type |-> "", explicit |-> FALSE,
     was_swept |-> FALSE, origin |-> [sources |-> <<>>, user_id |-> ""]]

NoSessions ==
    /\ saver = <<>>
    /\ session_metadata = <<>>
    /\ now = 0
    /\ call = NoCall
    /\ swept = {}

NoSessionIdCalls ==
    /\ sid_user = ""
    /\ sid_calls = <<>>

(* The class before its first instantiation: _instance is None, the lock   *)
(* is free (0), the module global is None.  initialized is the instance's  *)
(* _initialized attribute ("unset" until __new__ assigns it); memory_saver *)
(* and session_map name the objects the attributes hold (0: not assigned). *)
NoInstance ==
    [instance |-> FALSE, lock |-> 0, initialized |-> "unset",
     memory_saver |-> 0, session_map |-> 0, global_mgr |-> FALSE,
     savers_created |-> 0, maps_created |-> 0, stored |-> {},
     partial_seen |-> FALSE]

NoThreads ==
    /\ cls = NoInstance
    /\ thr = <<>>

(* No concurrent call on the session map *)
NoMetaCalls ==
    /\ meta_map = <<>>
    /\ meta_thr = <<>>

(* No concurrent invocation *)
NoRace ==
    /\ slot = <<>>
    /\ runs = <<>>

(* No LLM call *)
NoLlmCalls ==
    /\ environ = <<>>
    /\ llm = <<>>

(* No speech synthesis *)
NoTts == tts = <<>>

(* No JSON extraction *)
NoJson == jx = <<>>

(* No image node invocation *)
NoImg == img = <<>>

(* No route request *)
NoApi == api = <<>>

(* No merge writing temp files *)
NoTmp == tmpf = <<>>

(* No normalization *)
NoNorm == norm = <<>>

(* No upload lookup *)
NoUpl == upl = <<>>

(* No generation service call *)
NoEvs == evs = <<>>

NoLayers ==
    /\ NoMetaCalls
    /\ NoRace
    /\ NoLlmCalls
    /\ NoTts
    /\ NoJson
    /\ NoImg
    /\ NoApi
    /\ NoTmp
    /\ NoNorm
    /\ NoUpl
    /\ NoEvs

InitAt(entry) ==
    /\ state \in InitialStates
    /\ initial_state = state
    /\ checkpoint = state
    /\ NoSessions
    /\ NoSessionIdCalls
    /\ NoThreads
    /\ NoLayers
    /\ pc = entry
    /\ trace = <<>>
    /\ escaped = FALSE
    /\ injected = 0
    /\ gen_results = <<>>
    /\ val_results = <<>>

-----------------------------------------------------------------------------
(* The graph of build_unified_workflow *)

EntryPoint == "extract_sources"

(* Faulty variant: the image_edit tag is wired to the image_generate node *)
BranchEntry_image_swapped(branch) ==
    CASE branch = "document" -> "doc_detect_format"
      [] branch = "podcast" -> "podcast_generate_script"
      [] branch = "mindmap" -> "mindmap_generate"
      [] branch = "image_generate" -> "image_generate"
      [] branch = "image_edit" -> "image_generate"

BranchEntry(branch) ==
    CASE branch = "document" -> "doc_detect_format"
      [] branch = "podcast" -> "podcast_generate_script"
      [] branch = "mindmap" -> "mindmap_generate"
      [] branch = "image_generate" -> "image_generate"
      [] branch = "image_edit" -> "image_edit"

(* Faulty variant: enhance_content is wired past generate_images *)
DocEdge_skip_generate_images(node) ==
    CASE node = "doc_detect_format" -> "doc_parse_content"
      [] node = "doc_parse_content" -> "doc_transform_content"
      [] node = "doc_transform_content" -> "doc_enhance_content"
      [] node = "doc_enhance_content" -> "doc_describe_images"
      [] node = "doc_generate_images" -> "doc_describe_images"
      [] node = "doc_describe_images" -> "doc_persist_images"
      [] node = "doc_persist_images" -> "doc_generate_output"
      [] node = "doc_generate_output" -> "doc_validate_output"
      [] node = "doc_validate_output" -> "should_retry_document"

DocEdge(node) ==
    CASE node = "doc_detect_format" -> "doc_parse_content"
      [] node = "doc_parse_content" -> "doc_transform_content"
      [] node = "doc_transform_content" -> "doc_enhance_content"
      [] node = "doc_enhance_content" -> "doc_generate_images"
      [] node = "doc_generate_images" -> "doc_describe_images"
      [] node = "doc_describe_images" -> "doc_persist_images"
      [] node = "doc_persist_images" -> "doc_generate_output"
      [] node = "doc_generate_output" -> "doc_validate_output"
      [] node = "doc_validate_output" -> "should_retry_document"

(* Faulty variant: the end decision is not wired to END *)
RetryEdge_no_end(decision) ==
    IF decision = "retry" THEN "doc_generate_output" ELSE "should_retry_document"

RetryEdge(decision) ==
    IF decision = "retry" THEN "doc_generate_output" ELSE "END"

(* One step of the engine: node ran, returned next_state, control moves on *)
Step(node, next_state, next_pc) ==
    /\ pc = node
    /\ state' = next_state
    /\ pc' = next_pc
    /\ trace' = Append(trace, node)
    /\ checkpoint' = next_state
    /\ UNCHANGED <<initial_state, escaped, sessvars, sidvars, singvars, layervars>>

ExtractSources(next_pc) ==
    /\ pc = "extract_sources"
    /\ \E outcomes \in [1..MaxSources -> ParserOutcomes], exc \in ExcText :
          Step("extract_sources", extract_sources_node(state, outcomes, exc), next_pc)
    /\ UNCHANGED <<injected, gen_results, val_results>>

BuiltExtractSources == ExtractSources("route_by_output_type")

RouteByOutputType ==
    /\ pc = "route_by_output_type"
    /\ pc' = BranchEntry(get_output_branch(state))
    /\ UNCHANGED <<state, initial_state, trace, escaped, injected, gen_results,
                 val_results, checkpoint, sessvars, sidvars, singvars, layervars>>

(* Unexpected collaborator failures in the document branch are counted *)
Inject(failed) ==
    /\ failed => injected < MaxInjected
    /\ injected' = IF failed THEN injected + 1 ELSE injected

DocumentStep ==
    /\ pc \in DocStepNodes
    /\ \E exc \in {""} \cup ExcText :
          /\ Inject(exc # "")
          /\ Step(pc, wrapped(document_step_node(state, pc, exc)), DocEdge(pc))
    /\ UNCHANGED <<gen_results, val_results>>

TransformContent ==
    /\ \E exc \in {""} \cup ExcText :
          /\ Inject(exc # "")
          /\ Step("doc_transform_content",
                  wrapped(transform_content_node(state, exc)),
                  DocEdge("doc_transform_content"))
    /\ UNCHANGED <<gen_results, val_results>>

(* What a node invocation did, read off the errors it returned *)
Result(before, after) ==
    IF after.errors = before.errors
    THEN "ok"
    ELSE IF \/ Contains(Last(after.errors), "Generation failed")
            \/ Contains(Last(after.errors), "Validation failed")
    THEN "retryable"
    ELSE "fatal"

GenerateOutput ==
    /\ Len(gen_results) < MaxGenerateCalls
    /\ \E outcome \in GenerateOutcomes, exc \in ExcText :
          LET result == generate_output_node(state, outcome, exc) IN
          /\ Inject(outcome = "Exception")
          /\ Step("doc_generate_output", wrapped(result),
                  DocEdge("doc_generate_output"))
          /\ gen_results' = Append(gen_results, Result(state, result))
    /\ UNCHANGED val_results

ValidateOutput ==
    /\ \E outcome \in ValidateOutcomes, exc \in ExcText :
          LET result == validate_output_node(state, outcome, exc) IN
          /\ Inject(outcome = "Exception")
          /\ Step("doc_validate_output", wrapped(result),
                  DocEdge("doc_validate_output"))
          /\ val_results' = Append(val_results, Result(state, result))
    /\ UNCHANGED gen_results

ShouldRetryDocument ==
    /\ pc = "should_retry_document"
    /\ LET r == should_retry_document(state) IN
          /\ state' = r.st
          /\ pc' = RetryEdge(r.decision)
    /\ UNCHANGED <<initial_state, trace, escaped, injected, gen_results,
                 val_results, checkpoint, sessvars, sidvars, singvars, layervars>>

MindmapGenerate ==
    /\ \E response \in LlmResponses, exc \in ExcText :
          Step("mindmap_generate", generate_mindmap_node(state, response, exc),
               "END")
    /\ UNCHANGED <<injected, gen_results, val_results>>

PodcastGenerateScript ==
    /\ \E outcome \in {"ok", "empty", "none", "raise"}, exc \in ExcText :
          Step("podcast_generate_script",
               generate_podcast_script_node(state, outcome, exc),
               "podcast_synthesize_audio")
    /\ UNCHANGED <<injected, gen_results, val_results>>

PodcastSynthesizeAudio ==
    /\ \E outcome \in {"ok", "raise"}, exc \in ExcText :
          Step("podcast_synthesize_audio",
               synthesize_podcast_audio_node(state, outcome, exc), "END")
    /\ UNCHANGED <<injected, gen_results, val_results>>

ImageGenerate ==
    /\ \E outcome \in ImageOutcomes, exc \in ExcText :
          Step("image_generate", generate_image_node(state, outcome, exc), "END")
    /\ UNCHANGED <<injected, gen_results, val_results>>

ImageEdit ==
    /\ \E outcome \in ImageOutcomes, exc \in ExcText :
          Step("image_edit", edit_image_node(state, outcome, exc), "END")
    /\ UNCHANGED <<injected, gen_results, val_results>>

BranchNext ==
    \/ RouteByOutputType
    \/ DocumentStep
    \/ TransformContent
    \/ GenerateOutput
    \/ ValidateOutput
    \/ ShouldRetryDocument
    \/ MindmapGenerate
    \/ PodcastGenerateScript
    \/ PodcastSynthesizeAudio
    \/ ImageGenerate
    \/ ImageEdit

Init == InitAt(EntryPoint)

Next == BuiltExtractSources \/ BranchNext

Spec == Init /\ [][Next]_vars

-----------------------------------------------------------------------------
(* The shared chain of source-preparation nodes, run in the order of their  *)
(* step numbers (validate 1, resolve 2, extract 3, merge 4) ahead of the    *)
(* router.                                                                  *)

ChainEntryPoint == "validate_sources"

ValidateSources ==
    /\ \E path_exists \in BOOLEAN :
          Step("validate_sources", validate_sources_node(state, path_exists),
               "resolve_sources")
    /\ UNCHANGED <<injected, gen_results, val_results>>

ResolveSources ==
    /\ \E storage_exc \in {""} \cup ExcText :
          Step("resolve_sources", resolve_sources_node(state, storage_exc),
               "extract_sources")
    /\ UNCHANGED <<injected, gen_results, val_results>>

ChainExtractSources == ExtractSources("merge_sources")

(* workflow.invoke raises when a node raises; the run function's except     *)
(* clause returns initial_state with errors = [str(e)].                     *)
run_except(exc) == [initial_state EXCEPT !.errors = <<<<exc>>>>]

MergeSources ==
    /\ pc = "merge_sources"
    /\ \E write_exc \in {""} \cup ExcText :
          LET r == merge_sources_node(state, write_exc) IN
          /\ state' = IF r.raised THEN run_except(write_exc) ELSE r.st
          /\ pc' = IF r.raised THEN "END" ELSE "route_by_output_type"
          /\ escaped' = (escaped \/ r.raised)
          /\ checkpoint' = IF r.raised THEN checkpoint ELSE r.st
    /\ trace' = Append(trace, "merge_sources")
    /\ UNCHANGED <<initial_state, injected, gen_results, val_results,
                   sessvars, sidvars, singvars, layervars>>

InitChain == InitAt(ChainEntryPoint)

NextChain ==
    \/ ValidateSources
    \/ ResolveSources
    \/ ChainExtractSources
    \/ MergeSources
    \/ BranchNext

SpecChain == InitChain /\ [][NextChain]_vars

(* CheckpointManager.generate_session_id                                    *)
(*                                                                         *)
(* A source item is a dict: a record whose absent keys are either not in    *)
(* its domain or hold Missing; Null stands for None.  The digests md5 and   *)
(* sha256 are kept symbolic (the digest of x is a value that names x), so   *)
(* two keys are equal exactly when the hashed strings are equal.            *)

Missing == "<missing>"

Null == "<null>"

Present(item, k) == k \in DOMAIN item /\ item[k] # Missing

(* dict.get(k, default) *)
Get(item, k, default) == IF Present(item, k) THEN item[k] ELSE default

(* json.dumps(x, sort_keys=True): the keys in sorted order *)
JsonKeys == <<"content", "file_id", "parser", "type", "url">>

(* The order of the JSON encodings of the values of the model: a string is  *)
(* written in quotes (so " " < " Alpha " < "" < "a"), None is written null  *)
(* and sorts after every string.                                            *)
JsonValues ==
    <<" ", " Alpha ", "", "a", "a|url:b", "a|user:u1", "b", "doc1", "file",
      "http://a", "other", "sheet1", "text", "url", Null>>

ValueRank(v) == CHOOSE i \in 1..Len(JsonValues) : JsonValues[i] = v

(* The encoding as a sequence of ranks: key, value, key, value, ..., "}".   *)
(* "}" sorts after "," and so after every key that could follow.            *)
RECURSIVE JsonDumps(_, _)
JsonDumps(item, i) ==
    IF i > Len(JsonKeys)
    THEN <<Len(JsonKeys) + 1>>
    ELSE IF Present(item, JsonKeys[i])
    THEN <<i, ValueRank(item[JsonKeys[i]])>> \o JsonDumps(item, i + 1)
    ELSE JsonDumps(item, i + 1)

(* str < str *)
RECURSIVE LexLess(_, _)
LexLess(a, b) ==
    IF a = <<>> \/ b = <<>>
    THEN a = <<>> /\ b # <<>>
    ELSE IF Head(a) # Head(b)
    THEN Head(a) < Head(b)
    ELSE LexLess(Tail(a), Tail(b))

(* Insert x into a sorted list, after the items whose key is not greater *)
InsertByDump(sorted, x) ==
    LET later == {i \in 1..Len(sorted) :
                      LexLess(JsonDumps(x, 1), JsonDumps(sorted[i], 1))}
        at == IF later = {} THEN Len(sorted) + 1
              ELSE CHOOSE i \in later : \A j \in later : i <= j
    IN SubSeq(sorted, 1, at - 1) \o <<x>> \o SubSeq(sorted, at, Len(sorted))

(* Faulty variant: the items are hashed in the order given *)
SortedSources_as_given(sources) == sources

(* sorted(sources, key=lambda x: json.dumps(x, sort_keys=True)) *)
RECURSIVE SortedSources(_)
SortedSources(sources) ==
    IF sources = <<>>
    THEN <<>>
    ELSE InsertByDump(SortedSources(SubSeq(sources, 1, Len(sources) - 1)),
                      sources[Len(sources)])

(* f"{value}": None is written "None" *)
Str(v) == IF v = Null THEN "None" ELSE v

Md5Hex16(text) == <<"md5[:16]", text>>

(* The descriptors one item contributes (none for an unknown type) *)
Descriptor(src) ==
    LET src_type == Get(src, "type", "") IN
    CASE src_type = "file" ->
           <<[kind |-> "file", value |-> <<"str", Str(Get(src, "file_id", ""))>>]>>
      [] src_type = "url" ->
           <<[kind |-> "url", value |-> <<"str", Str(Get(src, "url", ""))>>]>>
      [] src_type = "text" ->
           <<[kind |-> "text", value |-> Md5Hex16(Get(src, "content", ""))]>>
      [] OTHER -> <<>>

RECURSIVE Normalized(_)
Normalized(sorted) ==
    IF sorted = <<>>
    THEN <<>>
    ELSE Descriptor(Head(sorted)) \o Normalized(Tail(sorted))

(* src.get("content", "").encode() on None *)
RaisesAttributeError(sources) ==
    \E i \in 1..Len(sources) :
        /\ Get(sources[i], "type", "") = "text"
        /\ Get(sources[i], "content", "") = Null

(* The characters of a value, cut where the canonical string is cut: at    *)
(* "|" and after a "url:" or "user:" written inside the value               *)
Chars(v) ==
    CASE v = "" -> <<>>
      [] v = "a|url:b" -> <<"a", "|", "url:", "b">>
      [] v = "a|user:u1" -> <<"a", "|", "user:", "u1">>
      [] OTHER -> <<v>>

(* f"file:{...}", f"url:{...}", f"text:{text_hash}" *)
DescriptorStr(d) ==
    CASE d.kind = "file" -> <<"file:">> \o Chars(d.value[2])
      [] d.kind = "url" -> <<"url:">> \o Chars(d.value[2])
      [] d.kind = "text" -> <<"text:", "md5[:16](", d.value[2], ")">>

(* "|".join(normalized) *)
RECURSIVE Join(_)
Join(parts) ==
    IF parts = <<>>
    THEN <<>>
    ELSE IF Len(parts) = 1
    THEN DescriptorStr(parts[1])
    ELSE DescriptorStr(parts[1]) \o <<"|">> \o Join(Tail(parts))

(* content_str: the joined descriptors, then "|user:" and the user id *)
ContentStr(parts, user) ==
    Join(parts) \o (IF user = "" THEN <<>> ELSE <<"|", "user:">> \o Chars(user))

(* The key is the digest of the canonical string *)
SessionKey(raised, prefix, hex_digits, parts, user) ==
    [raised |-> raised, prefix |-> prefix, hex_digits |-> hex_digits,
     digest_of |-> ContentStr(parts, user)]

generate_session_id(sources, user_id) ==
    IF RaisesAttributeError(sources)
    THEN SessionKey("AttributeError", "", 0, <<>>, "")
    ELSE SessionKey("", "session_", 24, Normalized(SortedSources(sources)),
                    IF user_id \in {"", Null} THEN "" ELSE user_id)

(* The calls of the model: two calls with the same user id *)
MaxSidSources == 2

SidItem(type, file_id, url, content, parser) ==
    [type |-> type, file_id |-> file_id, url |-> url, content |-> content,
     parser |-> parser]

SidItems ==
    {SidItem("url", Missing, "b", Missing, "a"),
     SidItem("url", Missing, "a", Missing, "b"),
     SidItem("url", Missing, "a", Missing, Missing),
     SidItem("url", Missing, "b", Missing, Missing),
     SidItem("text", Missing, Missing, "a", Missing),
     SidItem("text", Missing, Missing, Null, Missing),
     SidItem("file", "a", Missing, Missing, Missing),
     SidItem("other", Missing, Missing, Missing, Missing)}

SidLists == UNION {[1..n -> SidItems] : n \in 0..MaxSidSources}

SidUsers == {"", "u1"}

(* No invocation is running *)
NoWorkflow ==
    /\ state = build_initial_state("mindmap", Request(<<>>, "", ""), "key",
                                   NoCheckpoint)
    /\ initial_state = state
    /\ checkpoint = state
    /\ pc = "IDLE"
    /\ trace = <<>>
    /\ escaped = FALSE
    /\ injected = 0
    /\ gen_results = <<>>
    /\ val_results = <<>>

SessionIdCall(sources) ==
    /\ sid_calls' = Append(sid_calls,
                           [sources |-> sources,
                            key |-> generate_session_id(sources, sid_user)])
    /\ UNCHANGED <<sid_user, wfvars, sessvars, singvars, layervars>>

GenerateSessionId ==
    /\ sid_calls = <<>>
    /\ \E sources \in SidLists : SessionIdCall(sources)

GenerateSessionIdAgain ==
    /\ Len(sid_calls) = 1
    /\ \E sources \in SidLists : SessionIdCall(sources)

InitSessionId ==
    /\ sid_user \in SidUsers
    /\ sid_calls = <<>>
    /\ NoWorkflow
    /\ NoSessions
    /\ NoThreads
    /\ NoLayers

NextSessionId == GenerateSessionId \/ GenerateSessionIdAgain

SpecSessionId == InitSessionId /\ [][NextSessionId]_vars

-----------------------------------------------------------------------------
(* run_unified_workflow_with_session over the process-wide checkpoint       *)
(* store: invocations one after another, the expiry sweep and the clock     *)
(* in between.                                                              *)

MaxInvocations == 2

MaxTicks == 1

max_age_seconds == 3600

SessOutputTypes == {"mindmap", "podcast"}

SessSourceLists ==
    {<<TextItem(" Alpha ")>>, <<UrlItem("http://a")>>,
     <<TextItem(" Alpha "), UrlItem("http://a")>>,
     <<UrlItem("http://a"), TextItem(" Alpha ")>>}

SessUsers == {"", "u1"}

(* A session id the caller makes up; it may also pass back a returned one *)
CallerSessionId == SessionKey("", "caller", 0, <<>>, "")

(* CheckpointManager.has_checkpoint *)
has_checkpoint(session_id) == session_id \in DOMAIN saver

(* workflow.invoke(initial_state, config) on a thread that has a            *)
(* checkpoint: the engine restores the stored channel values and writes     *)
(* the keys of the input over them; the other channels keep their values.   *)
invoke_input(values, initial) ==
    [values EXCEPT !.output_type = initial.output_type,
                   !.request_data = initial.request_data,
                   !.gemini_api_key = initial.gemini_api_key,
                   !.input_path = initial.input_path,
                   !.raw_content = initial.raw_content,
                   !.structured_content = initial.structured_content,
                   !.output_path = initial.output_path,
                   !.errors = initial.errors,
                   !.metadata = initial.metadata,
                   !.completed = initial.completed]

StartInvocation ==
    /\ pc = "IDLE"
    /\ call.n < MaxInvocations
    /\ \E output_type \in SessOutputTypes, sources \in SessSourceLists,
          user_id \in SessUsers,
          session_arg \in {NoSessionId} \cup DOMAIN saver \cup {CallerSessionId} :
          LET session_id == IF session_arg = NoSessionId
                            THEN generate_session_id(sources, user_id)
                            ELSE session_arg
              has_existing_content ==
                  /\ has_checkpoint(session_id)
                  /\ saver[session_id].values.raw_content # <<>>
              initial == build_initial_state(
                             output_type, Request(sources, "", ""), "key",
                             IF has_existing_content
                             THEN saver[session_id].values ELSE NoCheckpoint)
              start == IF has_checkpoint(session_id)
                       THEN invoke_input(saver[session_id].values, initial)
                       ELSE initial
          IN /\ state' = start
             /\ initial_state' = initial
             /\ checkpoint' = start
             /\ call' = [active |-> TRUE, n |-> call.n + 1,
                         session_id |-> session_id, sources |-> sources,
                         user_id |-> user_id, output_type |-> output_type,
                         explicit |-> session_arg # NoSessionId,
                         was_swept |-> session_id \in swept,
                         origin |-> IF has_existing_content
                                    THEN saver[session_id].origin
                                    ELSE [sources |-> sources,
                                          user_id |-> user_id]]
    /\ pc' = ChainEntryPoint
    /\ trace' = <<>>
    /\ escaped' = FALSE
    /\ injected' = 0
    /\ gen_results' = <<>>
    /\ val_results' = <<>>
    /\ UNCHANGED <<saver, session_metadata, now, swept, sidvars, singvars, layervars>>

(* CheckpointManager.record_output_generated *)
record_output_generated(metadata, session_id, output_type) ==
    IF session_id \in DOMAIN metadata
    THEN [metadata EXCEPT ![session_id].outputs_generated = @ \cup {output_type}]
    ELSE (session_id :> [created_at |-> now,
                         outputs_generated |-> {output_type}]) @@ metadata

(* The invocation returns: the thread's last checkpoint stays in the store *)
FinishInvocation ==
    /\ pc = "END"
    /\ call.active
    /\ saver' = (call.session_id :> [values |-> checkpoint,
                                     origin |-> call.origin]) @@ saver
    /\ session_metadata' = record_output_generated(
                               session_metadata, call.session_id,
                               call.output_type)
    /\ swept' = swept \ {call.session_id}
    /\ call' = [call EXCEPT !.active = FALSE]
    /\ pc' = "IDLE"
    /\ UNCHANGED <<state, initial_state, checkpoint, trace, escaped, injected,
                   gen_results, val_results, now, sidvars, singvars, layervars>>

(* More than the maximum session age passes *)
Tick ==
    /\ pc = "IDLE"
    /\ now < MaxTicks * (max_age_seconds + 1)
    /\ now' = now + max_age_seconds + 1
    /\ UNCHANGED <<wfvars, saver, session_metadata, call, swept, sidvars,
                   singvars, layervars>>

(* CheckpointManager.cleanup_expired_sessions *)
cleanup_expired_sessions ==
    /\ pc = "IDLE"
    /\ LET expired == {session_id \in DOMAIN session_metadata :
                          now - session_metadata[session_id].created_at
                              > max_age_seconds}
       IN /\ expired # {}
          /\ session_metadata' =
                 [session_id \in DOMAIN session_metadata \ expired |->
                      session_metadata[session_id]]
          /\ swept' = swept \cup expired
    /\ UNCHANGED <<wfvars, saver, now, call, sidvars, singvars, layervars>>

InitSession ==
    /\ NoWorkflow
    /\ NoSessions
    /\ NoSessionIdCalls
    /\ NoThreads
    /\ NoLayers

NextSession ==
    \/ StartInvocation
    \/ ValidateSources
    \/ ResolveSources
    \/ ChainExtractSources
    \/ MergeSources
    \/ RouteByOutputType
    \/ MindmapGenerate
    \/ PodcastGenerateScript
    \/ PodcastSynthesizeAudio
    \/ FinishInvocation
    \/ Tick
    \/ cleanup_expired_sessions

SpecSession == InitSession /\ [][NextSession]_vars

-----------------------------------------------------------------------------
(* Construction of the checkpoint store: threads calling                    *)
(* get_checkpoint_manager() or CheckpointManager() for the first time.  A   *)
(* thread may be preempted between any two statements.                      *)

MaxThreads == 3

Threads == 1..MaxThreads

At(t, where) == thr[t].pc = where

Goto(t, where) == thr' = [thr EXCEPT ![t].pc = where]

SingletonFrame == UNCHANGED <<wfvars, sessvars, sidvars, layervars>>

(* The caller enters through the module function or the constructor *)
CallManager(t) ==
    /\ At(t, "idle")
    /\ \E via \in {"getter", "ctor"} :
          thr' = [thr EXCEPT ![t] = [pc |-> IF via = "getter" THEN "getter"
                                            ELSE "new", via |-> via]]
    /\ UNCHANGED cls
    /\ SingletonFrame

(* get_checkpoint_manager: if _checkpoint_manager is None *)
GetterCheck(t) ==
    /\ At(t, "getter")
    /\ Goto(t, IF cls.global_mgr THEN "use" ELSE "new")
    /\ UNCHANGED cls
    /\ SingletonFrame

(* __new__: the unlocked test  if cls._instance is None *)
NewCheck(t) ==
    /\ At(t, "new")
    /\ Goto(t, IF cls.instance THEN "init" ELSE "lock")
    /\ UNCHANGED cls
    /\ SingletonFrame

(* __new__: with cls._lock *)
NewLock(t) ==
    /\ At(t, "lock")
    /\ cls.lock = 0
    /\ cls' = [cls EXCEPT !.lock = t]
    /\ Goto(t, "locked")
    /\ SingletonFrame

(* __new__: the locked test and  cls._instance = super().__new__(cls) *)
NewCreate(t) ==
    /\ At(t, "locked")
    /\ IF cls.instance
       THEN /\ cls' = [cls EXCEPT !.lock = 0]
            /\ Goto(t, "init")
       ELSE /\ cls' = [cls EXCEPT !.instance = TRUE, !.initialized = "unset"]
            /\ Goto(t, "setflag")
    /\ SingletonFrame

(* __new__: cls._instance._initialized = False, then the lock is released *)
NewSetFlag(t) ==
    /\ At(t, "setflag")
    /\ cls' = [cls EXCEPT !.initialized = "false", !.lock = 0]
    /\ Goto(t, "init")
    /\ SingletonFrame

(* __init__: if self._initialized: return  (AttributeError when unset) *)
InitCheck(t) ==
    /\ At(t, "init")
    /\ Goto(t, CASE cls.initialized = "unset" -> "crashed"
                 [] cls.initialized = "true" -> "ret"
                 [] OTHER -> "init_flag")
    /\ UNCHANGED cls
    /\ SingletonFrame

(* __init__: self._initialized = True *)
InitFlag(t) ==
    /\ At(t, "init_flag")
    /\ cls' = [cls EXCEPT !.initialized = "true"]
    /\ Goto(t, "init_saver")
    /\ SingletonFrame

(* __init__: self._memory_saver = MemorySaver() *)
InitSaver(t) ==
    /\ At(t, "init_saver")
    /\ cls' = [cls EXCEPT !.savers_created = @ + 1,
                          !.memory_saver = cls.savers_created + 1]
    /\ Goto(t, "init_map")
    /\ SingletonFrame

(* __init__: self._session_metadata = {} *)
InitMap(t) ==
    /\ At(t, "init_map")
    /\ cls' = [cls EXCEPT !.maps_created = @ + 1,
                          !.session_map = cls.maps_created + 1]
    /\ Goto(t, "ret")
    /\ SingletonFrame

(* The constructor returns; get_checkpoint_manager assigns the global *)
ReturnManager(t) ==
    /\ At(t, "ret")
    /\ cls' = [cls EXCEPT !.global_mgr = @ \/ thr[t].via = "getter"]
    /\ Goto(t, "use")
    /\ SingletonFrame

(* The caller uses the store: it saves a checkpoint in the saver *)
UseManager(t) ==
    /\ At(t, "use")
    /\ IF cls.memory_saver = 0 \/ cls.session_map = 0
       THEN /\ cls' = [cls EXCEPT !.partial_seen = TRUE]
            /\ Goto(t, "crashed")
       ELSE /\ cls' = [cls EXCEPT !.stored = @ \cup {cls.memory_saver}]
            /\ Goto(t, "done")
    /\ SingletonFrame

InitSingleton ==
    /\ cls = NoInstance
    /\ thr = [t \in Threads |-> [pc |-> "idle", via |-> "ctor"]]
    /\ NoWorkflow
    /\ NoSessions
    /\ NoSessionIdCalls
    /\ NoLayers

NextSingleton ==
    \E t \in Threads :
        \/ CallManager(t)
        \/ GetterCheck(t)
        \/ NewCheck(t)
        \/ NewLock(t)
        \/ NewCreate(t)
        \/ NewSetFlag(t)
        \/ InitCheck(t)
        \/ InitFlag(t)
        \/ InitSaver(t)
        \/ InitMap(t)
        \/ ReturnManager(t)
        \/ UseManager(t)

SpecSingleton == InitSingleton /\ [][NextSingleton]_vars

-----------------------------------------------------------------------------
(* Concurrent calls of record_output_generated, set_session_metadata and    *)
(* cleanup_expired_sessions on the one CheckpointManager.  None of the      *)
(* three takes a lock; a thread may be preempted between two statements.    *)
(* meta_map.entries is _session_metadata; an entry's outputs_generated      *)
(* names a list object of meta_map.lists (a list is shared by reference).   *)

MaxMetaThreads == 3

MaxMetaTicks == 1

MetaThreads == 1..MaxMetaThreads

MetaSessionIds == {"s1"}

MetaOutputTypes == {"mindmap", "podcast"}

IdleMetaThread ==
    [pc |-> "idle", op |-> "", session_id |-> "", output_type |-> "",
     outputs |-> 0, size |-> 0, visited |-> {}, expired |-> {},
     error |-> ""]

(* {"created_at": time.time(), "outputs_generated": []} *)
NewEntry(m) ==
    [created_at |-> m.now, outputs_generated |-> Len(m.lists) + 1,
     last_generated |-> "", value |-> ""]

(* self._session_metadata[session_id] = {...} *)
CreateEntry(m, session_id) ==
    [m EXCEPT !.entries = (session_id :> NewEntry(m)) @@ m.entries,
              !.lists = Append(m.lists, <<>>)]

MetaAt(t, where) == meta_thr[t].pc = where

MetaFrame ==
    UNCHANGED <<wfvars, sessvars, sidvars, singvars,
                racevars, envvars, tts, jx, img,
                api, tmpf, norm, upl, evs>>

(* A thread calls one of the three methods *)
CallRecord(t) ==
    /\ MetaAt(t, "idle")
    /\ \E session_id \in MetaSessionIds, output_type \in MetaOutputTypes :
          meta_thr' = [meta_thr EXCEPT ![t] =
                          [IdleMetaThread EXCEPT !.pc = "check",
                                                 !.op = "record",
                                                 !.session_id = session_id,
                                                 !.output_type = output_type]]
    /\ UNCHANGED meta_map
    /\ MetaFrame

CallSet(t) ==
    /\ MetaAt(t, "idle")
    /\ \E session_id \in MetaSessionIds :
          meta_thr' = [meta_thr EXCEPT ![t] =
                          [IdleMetaThread EXCEPT !.pc = "check", !.op = "set",
                                                 !.session_id = session_id]]
    /\ UNCHANGED meta_map
    /\ MetaFrame

CallCleanup(t) ==
    /\ MetaAt(t, "idle")
    /\ meta_thr' = [meta_thr EXCEPT ![t] =
                       [IdleMetaThread EXCEPT !.pc = "iter", !.op = "cleanup"]]
    /\ UNCHANGED meta_map
    /\ MetaFrame

(* if session_id not in self._session_metadata  (both methods) *)
EntryCheck(t) ==
    /\ MetaAt(t, "check")
    /\ meta_thr' = [meta_thr EXCEPT ![t].pc =
                       IF meta_thr[t].session_id \in DOMAIN meta_map.entries
                       THEN "use" ELSE "create"]
    /\ UNCHANGED meta_map
    /\ MetaFrame

(* self._session_metadata[session_id] = {"created_at": ..., ...} *)
EntryCreate(t) ==
    /\ MetaAt(t, "create")
    /\ meta_map' = CreateEntry(meta_map, meta_thr[t].session_id)
    /\ meta_thr' = [meta_thr EXCEPT ![t].pc = "use"]
    /\ MetaFrame

(* set_session_metadata: self._session_metadata[session_id][key] = value *)
SetValue(t) ==
    /\ MetaAt(t, "use")
    /\ meta_thr[t].op = "set"
    /\ LET session_id == meta_thr[t].session_id
       IN IF session_id \in DOMAIN meta_map.entries
          THEN /\ meta_map' = [meta_map EXCEPT
                                  !.entries[session_id].value = "value"]
               /\ meta_thr' = [meta_thr EXCEPT ![t].pc = "done"]
          ELSE /\ meta_thr' = [meta_thr EXCEPT ![t].pc = "failed",
                                               ![t].error = "KeyError"]
               /\ UNCHANGED meta_map
    /\ MetaFrame

(* outputs = self._session_metadata[session_id].get("outputs_generated", []) *)
RecordGetOutputs(t) ==
    /\ MetaAt(t, "use")
    /\ meta_thr[t].op = "record"
    /\ LET session_id == meta_thr[t].session_id
       IN IF session_id \in DOMAIN meta_map.entries
          THEN meta_thr' = [meta_thr EXCEPT
                               ![t].pc = "append",
                               ![t].outputs =
                                   meta_map.entries[session_id].outputs_generated]
          ELSE meta_thr' = [meta_thr EXCEPT ![t].pc = "failed",
                                            ![t].error = "KeyError"]
    /\ UNCHANGED meta_map
    /\ MetaFrame

(* if output_type not in outputs: outputs.append(output_type) *)
RecordAppend(t) ==
    /\ MetaAt(t, "append")
    /\ LET l == meta_thr[t].outputs
           output_type == meta_thr[t].output_type
       IN meta_map' = IF \E i \in 1..Len(meta_map.lists[l]) :
                             meta_map.lists[l][i] = output_type
                      THEN meta_map
                      ELSE [meta_map EXCEPT
                               !.lists[l] = Append(@, output_type)]
    /\ meta_thr' = [meta_thr EXCEPT ![t].pc = "store"]
    /\ MetaFrame

(* self._session_metadata[session_id]["outputs_generated"] = outputs *)
RecordStore(t) ==
    /\ MetaAt(t, "store")
    /\ LET session_id == meta_thr[t].session_id
       IN IF session_id \in DOMAIN meta_map.entries
          THEN /\ meta_map' = [meta_map EXCEPT
                                  !.entries[session_id].outputs_generated =
                                      meta_thr[t].outputs]
               /\ meta_thr' = [meta_thr EXCEPT ![t].pc = "last"]
          ELSE /\ meta_thr' = [meta_thr EXCEPT ![t].pc = "failed",
                                               ![t].error = "KeyError"]
               /\ UNCHANGED meta_map
    /\ MetaFrame

(* self._session_metadata[session_id]["last_generated"] = output_type and   *)
(* ["last_generated_at"] = time.time()                                       *)
RecordLast(t) ==
    /\ MetaAt(t, "last")
    /\ LET session_id == meta_thr[t].session_id
       IN IF session_id \in DOMAIN meta_map.entries
          THEN /\ meta_map' = [meta_map EXCEPT
                                  !.entries[session_id].last_generated =
                                      meta_thr[t].output_type]
               /\ meta_thr' = [meta_thr EXCEPT ![t].pc = "done"]
          ELSE /\ meta_thr' = [meta_thr EXCEPT ![t].pc = "failed",
                                               ![t].error = "KeyError"]
               /\ UNCHANGED meta_map
    /\ MetaFrame

(* cleanup_expired_sessions: current_time = time.time() and the iterator    *)
(* of  self._session_metadata.items()  is created                            *)
CleanupIter(t) ==
    /\ MetaAt(t, "iter")
    /\ meta_thr' = [meta_thr EXCEPT
                       ![t].pc = "next",
                       ![t].size = Cardinality(DOMAIN meta_map.entries)]
    /\ UNCHANGED meta_map
    /\ MetaFrame

(* One turn of the for loop: the dict iterator raises RuntimeError when the *)
(* dict changed size since the iterator was created                          *)
CleanupNext(t) ==
    /\ MetaAt(t, "next")
    /\ LET rest == DOMAIN meta_map.entries \ meta_thr[t].visited
       IN IF Cardinality(DOMAIN meta_map.entries) # meta_thr[t].size
          THEN meta_thr' = [meta_thr EXCEPT ![t].pc = "failed",
                                            ![t].error = "RuntimeError"]
          ELSE IF rest = {}
          THEN meta_thr' = [meta_thr EXCEPT ![t].pc = "delete"]
          ELSE \E session_id \in rest :
                  meta_thr' = [meta_thr EXCEPT
                      ![t].visited = @ \cup {session_id},
                      ![t].expired =
                          IF meta_map.now
                                 - meta_map.entries[session_id].created_at
                                 > max_age_seconds
                          THEN @ \cup {session_id} ELSE @]
    /\ UNCHANGED meta_map
    /\ MetaFrame

(* for session_id in expired: del self._session_metadata[session_id] *)
CleanupDelete(t) ==
    /\ MetaAt(t, "delete")
    /\ IF meta_thr[t].expired = {}
       THEN /\ meta_thr' = [meta_thr EXCEPT ![t].pc = "done"]
            /\ UNCHANGED meta_map
       ELSE \E session_id \in meta_thr[t].expired :
               IF session_id \in DOMAIN meta_map.entries
               THEN /\ meta_map' =
                          [meta_map EXCEPT
                              !.entries =
                                  [s \in DOMAIN meta_map.entries \ {session_id}
                                      |-> meta_map.entries[s]],
                              !.deleted = @ \cup {session_id}]
                    /\ meta_thr' = [meta_thr EXCEPT
                                       ![t].expired = @ \ {session_id}]
               ELSE /\ meta_thr' = [meta_thr EXCEPT ![t].pc = "failed",
                                                    ![t].error = "KeyError"]
                    /\ UNCHANGED meta_map
    /\ MetaFrame

(* More than the maximum session age passes *)
MetaTick ==
    /\ meta_map.now < MaxMetaTicks * (max_age_seconds + 1)
    /\ meta_map' = [meta_map EXCEPT !.now = @ + max_age_seconds + 1]
    /\ UNCHANGED meta_thr
    /\ MetaFrame

(* The store as it is after construction: the session map is empty *)
InitMeta ==
    /\ meta_map = [entries |-> <<>>, lists |-> <<>>, now |-> 0,
                   deleted |-> {}]
    /\ meta_thr = [t \in MetaThreads |-> IdleMetaThread]
    /\ NoWorkflow
    /\ NoSessions
    /\ NoSessionIdCalls
    /\ NoThreads
    /\ NoTmp
    /\ NoNorm
    /\ NoUpl
    /\ NoEvs
    /\ NoImg
    /\ NoApi
    /\ NoRace
    /\ NoLlmCalls
    /\ NoTts
    /\ NoJson

NextMeta ==
    \/ \E t \in MetaThreads :
          \/ CallRecord(t)
          \/ CallSet(t)
          \/ CallCleanup(t)
          \/ EntryCheck(t)
          \/ EntryCreate(t)
          \/ SetValue(t)
          \/ RecordGetOutputs(t)
          \/ RecordAppend(t)
          \/ RecordStore(t)
          \/ RecordLast(t)
          \/ CleanupIter(t)
          \/ CleanupNext(t)
          \/ CleanupDelete(t)
    \/ MetaTick

SpecMeta == InitMeta /\ [][NextMeta]_vars

-----------------------------------------------------------------------------
(* Two concurrent calls of run_unified_workflow_with_session with the same  *)
(* session id.  Each invocation has its own state; the engine writes the    *)
(* invocation's channel values to the thread's checkpoint slot after the    *)
(* input is applied and after every node.                                   *)

MaxRuns == 2

Runs == 1..MaxRuns

RaceOutputTypes == {"mindmap", "article_pdf"}

RaceSources(i) ==
    IF i = 1 THEN <<TextItem(" Alpha ")>> ELSE <<UrlItem("http://a")>>

EmptyState ==
    build_initial_state("mindmap", Request(<<>>, "", ""), "key", NoCheckpoint)

IdleRun ==
    [pc |-> "idle", output_type |-> "", initial |-> EmptyState,
     state |-> EmptyState, result |-> EmptyState, raised |-> "",
     last_put |-> EmptyState]

(* checkpointer.put: the slot holds the writer's channel values *)
put_checkpoint(old, values, writer) ==
    [exists |-> TRUE, values |-> values, writer |-> writer]

RaceResult(st, next) ==
    [st |-> st, put |-> st, raised |-> FALSE, exc |-> "", next |-> next]

(* What a node can return for state s, what the engine checkpoints, and     *)
(* the node the graph's edges lead to                                       *)
RaceNodeResults(node, s) ==
    CASE node = "validate_sources" ->
           {RaceResult(validate_sources_node(s, TRUE), "resolve_sources")}
      [] node = "resolve_sources" ->
           {RaceResult(resolve_sources_node(s, ""), "extract_sources")}
      [] node = "extract_sources" ->
           {RaceResult(extract_sources_node(
                           s, [k \in 1..MaxSources |-> o], "boom"),
                       "merge_sources") : o \in {"content", "empty"}}
      [] node = "merge_sources" ->
           {LET r == merge_sources_node(s, w)
            IN [st |-> r.st, put |-> r.st, raised |-> r.raised, exc |-> w,
                next |-> IF r.raised THEN "RAISED"
                         ELSE BranchEntry(get_output_branch(r.st))] :
               w \in {""} \cup ExcText}
      [] node \in DocStepNodes ->
           {RaceResult(wrapped(document_step_node(s, node, "")),
                       DocEdge(node))}
      [] node = "doc_transform_content" ->
           {RaceResult(wrapped(transform_content_node(s, "")), DocEdge(node))}
      [] node = "doc_generate_output" ->
           {RaceResult(wrapped(generate_output_node(s, o, "boom")),
                       DocEdge(node)) : o \in {"ok", "GenerationError"}}
      [] node = "doc_validate_output" ->
           {LET v == wrapped(validate_output_node(s, "ok", ""))
                r == should_retry_document(v)
            IN [st |-> r.st, put |-> v, raised |-> FALSE, exc |-> "",
                next |-> RetryEdge(r.decision)]}
      [] node = "mindmap_generate" ->
           {RaceResult(generate_mindmap_node(s, r, "boom"), "END") :
               r \in LlmResponses}
      [] OTHER -> {}

RaceNodes ==
    {"validate_sources", "resolve_sources", "extract_sources",
     "merge_sources", "doc_transform_content", "doc_generate_output",
     "doc_validate_output", "mindmap_generate"} \cup DocStepNodes

RaceFrame ==
    UNCHANGED <<wfvars, sessvars, sidvars, singvars,
                metavars, envvars, tts, jx, img,
                api, tmpf, norm, upl, evs>>

(* The request arrives: lines 360-378 *)
RaceCall(i) ==
    /\ runs[i].pc = "idle"
    /\ \E output_type \in RaceOutputTypes :
          runs' = [runs EXCEPT ![i].pc = "get",
                               ![i].output_type = output_type]
    /\ UNCHANGED slot
    /\ RaceFrame

(* checkpointer.get(config) and the construction of initial_state:          *)
(* lines 384-433                                                             *)
RaceGetExisting(i) ==
    /\ runs[i].pc = "get"
    /\ LET has_existing_content ==
               slot.exists /\ slot.values.raw_content # <<>>
           initial == build_initial_state(
                          runs[i].output_type,
                          Request(RaceSources(i), "", ""), "key",
                          IF has_existing_content
                          THEN [raw_content |-> slot.values.raw_content,
                                structured_content |->
                                    slot.values.structured_content,
                                input_path |-> slot.values.input_path]
                          ELSE NoCheckpoint)
       IN runs' = [runs EXCEPT ![i].pc = "invoke", ![i].initial = initial]
    /\ UNCHANGED slot
    /\ RaceFrame

(* workflow.invoke(initial_state, config): the engine loads the thread's    *)
(* checkpoint, writes the input over it and checkpoints the result          *)
RaceInvoke(i) ==
    /\ runs[i].pc = "invoke"
    /\ LET start == IF slot.exists
                    THEN invoke_input(slot.values, runs[i].initial)
                    ELSE runs[i].initial
       IN /\ runs' = [runs EXCEPT ![i].pc = "validate_sources",
                                  ![i].state = start,
                                  ![i].last_put = start]
          /\ slot' = put_checkpoint(slot, start, i)
    /\ RaceFrame

(* One node of invocation i runs and its result is checkpointed; a raising  *)
(* node writes nothing                                                       *)
RaceNode(i) ==
    /\ runs[i].pc \in RaceNodes
    /\ \E r \in RaceNodeResults(runs[i].pc, runs[i].state) :
          IF r.raised
          THEN /\ runs' = [runs EXCEPT ![i].pc = r.next,
                                       ![i].raised = r.exc]
               /\ UNCHANGED slot
          ELSE /\ runs' = [runs EXCEPT ![i].pc = r.next, ![i].state = r.st,
                                       ![i].last_put = r.put]
               /\ slot' = put_checkpoint(slot, r.put, i)
    /\ RaceFrame

(* invoke returns the final state, or it raised and the except clause       *)
(* replaces the result: lines 447-454, 466                                   *)
RaceReturn(i) ==
    /\ runs[i].pc \in {"END", "RAISED"}
    /\ runs' = [runs EXCEPT
                   ![i].pc = "done",
                   ![i].result =
                       IF runs[i].pc = "RAISED"
                       THEN [runs[i].initial EXCEPT
                                !.errors = <<<<runs[i].raised>>>>]
                       ELSE runs[i].state]
    /\ UNCHANGED slot
    /\ RaceFrame

InitRace ==
    /\ slot = [exists |-> FALSE, values |-> EmptyState, writer |-> 0]
    /\ runs = [i \in Runs |-> IdleRun]
    /\ NoWorkflow
    /\ NoSessions
    /\ NoSessionIdCalls
    /\ NoThreads
    /\ NoTmp
    /\ NoNorm
    /\ NoUpl
    /\ NoEvs
    /\ NoImg
    /\ NoApi
    /\ NoMetaCalls
    /\ NoLlmCalls
    /\ NoTts
    /\ NoJson

NextRace ==
    \E i \in Runs :
        \/ RaceCall(i)
        \/ RaceGetExisting(i)
        \/ RaceInvoke(i)
        \/ RaceNode(i)
        \/ RaceReturn(i)

SpecRace == InitRace /\ [][NextRace]_vars

-----------------------------------------------------------------------------
(* The LLM call of concurrent invocations: generate_mindmap_tree,           *)
(* generate_podcast_script_node and GenerationService each store the        *)
(* invocation's API key in os.environ and then build an LLMService from     *)
(* the provider and the model only.                                         *)

MaxLlmCallers == 2

LlmCallers == 1..MaxLlmCallers

LlmKinds == {"mindmap", "podcast", "service"}

Providers == {"gemini", "google", "openai"}

EnvVars == {"GOOGLE_API_KEY", "GEMINI_API_KEY", "OPENAI_API_KEY"}

(* The key each invocation was given: different keys *)
SuppliedKey(t) == IF t = 1 THEN "key1" ELSE "key2"

(* provider_name = provider if provider != "google" else "gemini" *)
provider_name(provider) == IF provider = "google" THEN "gemini" ELSE provider

(* key_mapping of the nodes, key_map of GenerationService *)
key_mapping(kind, name) ==
    CASE name = "openai" -> "OPENAI_API_KEY"
      [] name = "gemini" /\ kind = "service" -> "GEMINI_API_KEY"
      [] name = "gemini" -> "GOOGLE_API_KEY"

(* LLMService(provider, model) receives no key: it takes the key from the   *)
(* variable of its provider, when it is built or when it is called          *)
LlmReadsAt == {"construct", "generate"}

IdleLlm ==
    [pc |-> "idle", kind |-> "", provider |-> "", env_var |-> "",
     reads_at |-> "", service_key |-> "", used_key |-> ""]

EnvFrame ==
    UNCHANGED <<wfvars, sessvars, sidvars, singvars,
                metavars, racevars, tts, jx, img,
                api, tmpf, norm, upl, evs>>

(* The node is entered with the invocation's provider *)
LlmEnter(t) ==
    /\ llm[t].pc = "idle"
    /\ \E kind \in LlmKinds, provider \in Providers :
          llm' = [llm EXCEPT ![t] =
                     [IdleLlm EXCEPT
                         !.pc = "set", !.kind = kind, !.provider = provider,
                         !.env_var =
                             key_mapping(kind, provider_name(provider))]]
    /\ UNCHANGED environ
    /\ EnvFrame

(* if env_var and api_key: os.environ[env_var] = api_key *)
LlmSetEnv(t) ==
    /\ llm[t].pc = "set"
    /\ environ' = [environ EXCEPT ![llm[t].env_var] = SuppliedKey(t)]
    /\ llm' = [llm EXCEPT ![t].pc = "construct"]
    /\ EnvFrame

(* llm_service = LLMService(provider=provider_name, model=model) *)
LlmConstruct(t) ==
    /\ llm[t].pc = "construct"
    /\ \E reads_at \in LlmReadsAt :
          llm' = [llm EXCEPT
                     ![t].pc = "generate",
                     ![t].reads_at = reads_at,
                     ![t].service_key =
                         IF reads_at = "construct"
                         THEN environ[llm[t].env_var] ELSE ""]
    /\ UNCHANGED environ
    /\ EnvFrame

(* response = llm_service.generate(prompt) *)
LlmGenerate(t) ==
    /\ llm[t].pc = "generate"
    /\ llm' = [llm EXCEPT
                  ![t].pc = "done",
                  ![t].used_key =
                      IF llm[t].reads_at = "construct"
                      THEN llm[t].service_key
                      ELSE environ[llm[t].env_var]]
    /\ UNCHANGED environ
    /\ EnvFrame

InitEnv ==
    /\ environ = [v \in EnvVars |-> ""]
    /\ llm = [t \in LlmCallers |-> IdleLlm]
    /\ NoWorkflow
    /\ NoSessions
    /\ NoSessionIdCalls
    /\ NoThreads
    /\ NoTmp
    /\ NoNorm
    /\ NoUpl
    /\ NoEvs
    /\ NoImg
    /\ NoApi
    /\ NoMetaCalls
    /\ NoRace
    /\ NoTts
    /\ NoJson

NextEnv ==
    \E t \in LlmCallers :
        \/ LlmEnter(t)
        \/ LlmSetEnv(t)
        \/ LlmConstruct(t)
        \/ LlmGenerate(t)

SpecEnv == InitEnv /\ [][NextEnv]_vars

-----------------------------------------------------------------------------
(* podcast_utils.synthesize_with_retry.  An error of the provider is the    *)
(* set of fragments its lower-cased text contains.                          *)

MaxTtsRetries == 3

default_max_retries == 3

RetryablePatterns == {"500", "internal", "overload", "unavailable"}

TtsErrors ==
    {{"500", "internal"}, {"unavailable"}, {"overload"}, {"quota"},
     {"invalid", "argument"}}

(* retryable = any(p in error_str for p in [...]) *)
retryable(error) == error \cap RetryablePatterns # {}

(* Faulty variant: the last attempt also waits *)
retry_after_failure_last_too(error, attempt, limit) ==
    retryable(error) /\ attempt < limit

(* if retryable and attempt < max_retries - 1 *)
retry_after_failure(error, attempt, limit) ==
    retryable(error) /\ attempt + 1 < limit

TtsFrame ==
    UNCHANGED <<wfvars, sessvars, sidvars, singvars,
                metavars, racevars, envvars, jx, img,
                api, tmpf, norm, upl, evs>>

(* One turn of  for attempt in range(max_retries): the provider is called;  *)
(* the call returns audio or raises                                         *)
TtsAttempt ==
    /\ tts.pc = "loop"
    /\ tts.attempt < tts.max_retries
    /\ \E outcome \in {{"audio"}} \cup TtsErrors :
          tts' = IF outcome = {"audio"}
                 THEN [tts EXCEPT !.pc = "done", !.result = "returned",
                                  !.calls = Append(@, outcome)]
                 ELSE IF retry_after_failure(outcome, tts.attempt,
                                             tts.max_retries)
                 THEN [tts EXCEPT !.pc = "sleep", !.last_error = outcome,
                                  !.calls = Append(@, outcome)]
                 ELSE [tts EXCEPT !.pc = "done", !.result = "raised",
                                  !.last_error = outcome,
                                  !.raised = outcome,
                                  !.calls = Append(@, outcome)]
    /\ TtsFrame

(* time.sleep(delay), then the next turn of the loop *)
TtsSleep ==
    /\ tts.pc = "sleep"
    /\ tts' = [tts EXCEPT !.pc = "loop", !.attempt = @ + 1,
                          !.waits = Append(@, tts.attempt)]
    /\ TtsFrame

(* The loop ran out: raise last_error, or RuntimeError when there is none *)
TtsLoopEnd ==
    /\ tts.pc = "loop"
    /\ tts.attempt >= tts.max_retries
    /\ tts' = [tts EXCEPT !.pc = "done", !.result = "raised",
                          !.raised = IF tts.last_error # {}
                                     THEN tts.last_error
                                     ELSE {"RuntimeError"}]
    /\ TtsFrame

InitTts ==
    /\ \E limit \in (0..MaxTtsRetries) \cup {default_max_retries} :
          tts = [pc |-> "loop", max_retries |-> limit, attempt |-> 0,
                 calls |-> <<>>, waits |-> <<>>, last_error |-> {},
                 result |-> "", raised |-> {}]
    /\ NoWorkflow
    /\ NoSessions
    /\ NoSessionIdCalls
    /\ NoThreads
    /\ NoTmp
    /\ NoNorm
    /\ NoUpl
    /\ NoEvs
    /\ NoImg
    /\ NoApi
    /\ NoMetaCalls
    /\ NoRace
    /\ NoLlmCalls
    /\ NoJson

NextTts == TtsAttempt \/ TtsSleep \/ TtsLoopEnd

SpecTts == InitTts /\ [][NextTts]_vars

-----------------------------------------------------------------------------
(* extract_json (podcast_utils) and _extract_json (mindmap_nodes): the same *)
(* code.  A text is a sequence of tokens: the characters that the code and  *)
(* the JSON grammar tell apart, a word "w", a blank "ws", a fence "fence" (three backquotes),    *)
(* the word "json", and "longint", an integer literal of more digits than   *)
(* the interpreter converts.                                                *)

MaxProse == 2

MaxPlain == 3

None == [none |-> TRUE, raised |-> "", value |-> <<>>]

RECURSIVE SkipWs(_, _)
SkipWs(s, i) ==
    IF i <= Len(s) /\ s[i] = "ws" THEN SkipWs(s, i + 1) ELSE i

(* The JSON grammar: each parser returns the index after what it parsed,    *)
(* or the error raised at the place where the text is not of its form.      *)
(* Adjacent digit tokens are one number; converting a number that holds a   *)
(* "longint" raises ValueError.                                             *)
Parsed(n) == [next |-> n, error |-> ""]

DecodeError == [next |-> 0, error |-> "JSONDecodeError"]

IntLimitError == [next |-> 0, error |-> "ValueError"]

RECURSIVE ParseString(_, _)
ParseString(s, j) ==
    IF j > Len(s)
    THEN DecodeError
    ELSE IF s[j] = "\""
    THEN Parsed(j + 1)
    ELSE IF s[j] = "\\"
    THEN IF j + 1 <= Len(s) /\ s[j + 1] \in {"\"", "\\"}
         THEN ParseString(s, j + 2)
         ELSE DecodeError
    ELSE ParseString(s, j + 1)

RECURSIVE ParseNumber(_, _, _)
ParseNumber(s, i, long) ==
    IF i <= Len(s) /\ s[i] \in {"1", "longint"}
    THEN ParseNumber(s, i + 1, long \/ s[i] = "longint")
    ELSE IF long THEN IntLimitError ELSE Parsed(i)

RECURSIVE ParseValue(_, _)
RECURSIVE ParseMembers(_, _)
ParseValue(s, i) ==
    IF i > Len(s)
    THEN DecodeError
    ELSE CASE s[i] \in {"1", "longint"} -> ParseNumber(s, i, FALSE)
           [] s[i] = "\"" -> ParseString(s, i + 1)
           [] s[i] = "{" ->
                LET j == SkipWs(s, i + 1)
                IN IF j <= Len(s) /\ s[j] = "}"
                   THEN Parsed(j + 1)
                   ELSE ParseMembers(s, j)
           [] OTHER -> DecodeError

ParseMembers(s, i) ==
    IF i > Len(s) \/ s[i] # "\""
    THEN DecodeError
    ELSE LET k == ParseString(s, i + 1)
             c == SkipWs(s, k.next)
         IN IF k.error # ""
            THEN k
            ELSE IF c > Len(s) \/ s[c] # ":"
            THEN DecodeError
            ELSE LET v == ParseValue(s, SkipWs(s, c + 1))
                     e == SkipWs(s, v.next)
                 IN IF v.error # ""
                    THEN v
                    ELSE IF e > Len(s)
                    THEN DecodeError
                    ELSE IF s[e] = ","
                    THEN ParseMembers(s, SkipWs(s, e + 1))
                    ELSE IF s[e] = "}"
                    THEN Parsed(e + 1)
                    ELSE DecodeError

(* str.strip() *)
RECURSIVE RStrip(_)
RStrip(s) ==
    IF s # <<>> /\ s[Len(s)] = "ws" THEN RStrip(SubSeq(s, 1, Len(s) - 1)) ELSE s

StripWs(s) ==
    LET r == RStrip(s) IN SubSeq(r, SkipWs(r, 1), Len(r))

(* json.loads: the value parsed (its text without the blanks around it),    *)
(* JSONDecodeError, or the ValueError of an integer literal past the        *)
(* interpreter's digit limit                                                *)
json_loads(s) ==
    LET body == StripWs(s)
        e == IF body = <<>> THEN DecodeError ELSE ParseValue(body, 1)
    IN IF e.error # ""
       THEN [error |-> e.error, value |-> <<>>]
       ELSE IF e.next # Len(body) + 1
       THEN [error |-> "JSONDecodeError", value |-> <<>>]
       ELSE [error |-> "", value |-> body]

(* _parse_candidate: only JSONDecodeError is caught *)
parse_candidate(candidate) ==
    LET parsed == json_loads(candidate)
    IN CASE parsed.error = "JSONDecodeError" -> None
         [] parsed.error # "" ->
              [none |-> FALSE, raised |-> parsed.error, value |-> <<>>]
         [] parsed.value[1] = "{" ->
              [none |-> FALSE, raised |-> "", value |-> parsed.value]
         [] OTHER -> None

(* cleaned.find("{"): 0 when there is none *)
RECURSIVE Find(_, _, _)
Find(s, ch, i) ==
    IF i > Len(s) THEN 0 ELSE IF s[i] = ch THEN i ELSE Find(s, ch, i + 1)

(* The brace-matching loop: the index of the brace closing the first one,   *)
(* 0 when the loop ends without it                                          *)
RECURSIVE MatchBrace(_, _, _, _, _)
MatchBrace(s, i, brace_count, in_string, escape_next) ==
    IF i > Len(s)
    THEN 0
    ELSE IF escape_next
    THEN MatchBrace(s, i + 1, brace_count, in_string, FALSE)
    ELSE IF s[i] = "\\"
    THEN MatchBrace(s, i + 1, brace_count, in_string, TRUE)
    ELSE IF s[i] = "\""
    THEN MatchBrace(s, i + 1, brace_count, ~in_string, FALSE)
    ELSE IF in_string
    THEN MatchBrace(s, i + 1, brace_count, in_string, FALSE)
    ELSE IF s[i] = "{"
    THEN MatchBrace(s, i + 1, brace_count + 1, in_string, FALSE)
    ELSE IF s[i] = "}"
    THEN IF brace_count = 1
         THEN i
         ELSE MatchBrace(s, i + 1, brace_count - 1, in_string, FALSE)
    ELSE MatchBrace(s, i + 1, brace_count, in_string, FALSE)

(* The fence markers are cut from the stripped text *)
CutFences(stripped) ==
    LET head == IF Len(stripped) >= 2 /\ stripped[1] = "fence"
                      /\ stripped[2] = "json"
                THEN SubSeq(stripped, 3, Len(stripped))
                ELSE IF Len(stripped) >= 1 /\ stripped[1] = "fence"
                THEN SubSeq(stripped, 2, Len(stripped))
                ELSE stripped
        tail == IF head # <<>> /\ head[Len(head)] = "fence"
                THEN SubSeq(head, 1, Len(head) - 1)
                ELSE head
    IN StripWs(tail)

extract_json(text) ==
    IF text = <<>>
    THEN None
    ELSE LET direct == parse_candidate(text)
             cleaned == CutFences(StripWs(text))
             cleaned_parsed == parse_candidate(cleaned)
             start_idx == Find(cleaned, "{", 1)
             end_idx == MatchBrace(cleaned, start_idx, 0, FALSE, FALSE)
         IN IF ~direct.none
            THEN direct
            ELSE IF ~cleaned_parsed.none
            THEN cleaned_parsed
            ELSE IF start_idx = 0 \/ end_idx = 0
            THEN None
            ELSE parse_candidate(SubSeq(cleaned, start_idx, end_idx))

(* The texts given: prose, a fenced block holding an object, prose; and     *)
(* texts without an opening brace                                           *)
JsonObjects ==
    {<<"{", "}">>,
     <<"{", "\"", "w", "\"", ":", "1", "}">>,
     <<"{", "\"", "w", "\"", ":", "\"", "}", "\\", "\"", "\"", "}">>,
     <<"{", "\"", "w", "\"", ":", "{", "\"", "w", "\"", ":", "1", "}", "}">>}

ProseTokens == {"w", "ws", "{", "}", "\"", ":"}

PlainTokens == {"w", "ws", "}", "\"", "1", "longint", "fence", "json"}

SeqsUpTo(tokens, n) == UNION {[1..k -> tokens] : k \in 0..n}

Fenced(object, tag) == <<"fence">> \o tag \o <<"ws">> \o object \o <<"ws", "fence">>

JsonFrame ==
    UNCHANGED <<wfvars, sessvars, sidvars, singvars,
                metavars, racevars, envvars, tts, img,
                api, tmpf, norm, upl, evs>>

(* The LLM answered with a prose-wrapped fenced object *)
ExtractWrapped ==
    /\ jx.kind = "wrapped"
    /\ ~jx.done
    /\ jx' = [jx EXCEPT !.done = TRUE, !.result = extract_json(jx.text)]
    /\ JsonFrame

(* The texts whose first opening brace opens an object: anything without   *)
(* an opening brace before it, anything after it                            *)
FirstObjects ==
    JsonObjects \cup
    {<<"{", "\"", "\\", "\\", "\"", ":", "\"", "{", "\\", "\"", "{", "\"", "}">>,
     <<"{", "\"", "w", "\"", ":", "1", "longint", "}">>}

BeforeTokens == {"w", "ws", "}", "\"", "\\", "fence", "json"}

AfterTokens == {"w", "ws", "{", "}", "\"", "\\", "fence"}

(* The LLM answered with a text whose first opening brace opens an object *)
ExtractFirst ==
    /\ jx.kind = "first"
    /\ ~jx.done
    /\ jx' = [jx EXCEPT !.done = TRUE, !.result = extract_json(jx.text)]
    /\ JsonFrame

(* The LLM answered with a text that has no opening brace *)
ExtractPlain ==
    /\ jx.kind = "plain"
    /\ ~jx.done
    /\ jx' = [jx EXCEPT !.done = TRUE, !.result = extract_json(jx.text)]
    /\ JsonFrame

InitJson ==
    /\ \/ \E object \in JsonObjects, tag \in {<<>>, <<"json">>},
             before \in SeqsUpTo(ProseTokens, MaxProse),
             after \in SeqsUpTo(ProseTokens, MaxProse) :
             jx = [kind |-> "wrapped", object |-> object,
                   text |-> before \o <<"ws">> \o Fenced(object, tag)
                               \o <<"ws">> \o after,
                   done |-> FALSE, result |-> None]
       \/ \E text \in SeqsUpTo(PlainTokens, MaxPlain) :
             jx = [kind |-> "plain", object |-> <<>>, text |-> text,
                   done |-> FALSE, result |-> None]
       \/ \E object \in FirstObjects,
             before \in SeqsUpTo(BeforeTokens, MaxProse),
             after \in SeqsUpTo(AfterTokens, MaxProse) :
             jx = [kind |-> "first", object |-> object,
                   text |-> before \o object \o after,
                   done |-> FALSE, result |-> None]
    /\ NoWorkflow
    /\ NoSessions
    /\ NoSessionIdCalls
    /\ NoThreads
    /\ NoTmp
    /\ NoNorm
    /\ NoUpl
    /\ NoEvs
    /\ NoImg
    /\ NoApi
    /\ NoMetaCalls
    /\ NoRace
    /\ NoLlmCalls
    /\ NoTts

NextJson == ExtractWrapped \/ ExtractPlain \/ ExtractFirst

SpecJson == InitJson /\ [][NextJson]_vars

-----------------------------------------------------------------------------
(* The engine runs a started invocation node by node until END *)
FairSpec == Spec /\ WF_vars(Next)

-----------------------------------------------------------------------------
(* Vocabulary of the properties *)

Done == pc = "END"

SharedNodes ==
    {"validate_sources", "resolve_sources", "extract_sources", "merge_sources"}

DocOrder ==
    <<"doc_detect_format", "doc_parse_content", "doc_transform_content",
      "doc_enhance_content", "doc_generate_images", "doc_describe_images",
      "doc_persist_images", "doc_generate_output", "doc_validate_output">>

RECURSIVE Without(_, _)
Without(seq, set) ==
    IF seq = <<>>
    THEN <<>>
    ELSE (IF Head(seq) \in set THEN <<>> ELSE <<Head(seq)>>)
         \o Without(Tail(seq), set)

(* The nodes of the branch executed so far *)
BranchTrace == Without(trace, SharedNodes)

InDocumentBranch == state.output_type \in DocumentTypes

Retryable(msg) ==
    Contains(msg, "Generation failed") \/ Contains(msg, "Validation failed")

-----------------------------------------------------------------------------
-----------------------------------------------------------------------------
(* C2: the decision after validate_output is 'end' when errors is empty;    *)
(* otherwise 'end' when the retry count has reached max_retries; otherwise  *)
(* 'retry', with the counter one higher and control back at                 *)
(* generate_output, when the last error contains "Generation failed" or     *)
(* "Validation failed"; otherwise 'end'.                                    *)
C2_RetryDecision ==
    [][pc = "should_retry_document" =>
        LET count == state.metadata.retry_count IN
        IF state.errors = <<>>
        THEN pc' = "END" /\ state'.metadata.retry_count = count
        ELSE IF count >= max_retries
        THEN pc' = "END" /\ state'.metadata.retry_count = count
        ELSE IF Retryable(state.errors[Len(state.errors)])
        THEN pc' = "doc_generate_output" /\ state'.metadata.retry_count = count + 1
        ELSE pc' = "END" /\ state'.metadata.retry_count = count]_vars

C2_Witness ==
    /\ Done
    /\ state.metadata.retry_count = max_retries
    /\ Len(gen_results) = max_retries + 1

-----------------------------------------------------------------------------
(* C3: when generate_output fails with a retryable error and a later retry  *)
(* succeeds (and the output it wrote passes validate_output), the run ends  *)
(* right after that successful attempt: no further generate_output          *)
(* invocation follows it, and the run ends with empty errors and a          *)
(* populated output_path.                                                   *)
SucceededAfterRetry(j) ==
    /\ gen_results[j] = "ok"
    /\ \E i \in 1..(j - 1) : gen_results[i] = "retryable"
    /\ \A i \in 1..Len(val_results) : val_results[i] = "ok"
    /\ Len(val_results) >= j

C3_SuccessfulRetryEndsRun ==
    \A j \in 1..Len(gen_results) :
        SucceededAfterRetry(j) =>
            /\ j = Len(gen_results)
            /\ Done => (state.errors = <<>> /\ state.output_path # "")

-----------------------------------------------------------------------------
(* C4: every invocation terminates: a started branch reaches END, at its    *)
(* last node or once the retry loop has used up max_retries.                *)
C4_Terminates == <>Done

C4_Witness ==
    /\ Done
    /\ state.metadata.retry_count = max_retries
    /\ state.errors # <<>>
    /\ Len(val_results) = max_retries + 1

-----------------------------------------------------------------------------
(* C5: once a shared node has set metadata.skip_source_processing, each     *)
(* later shared node (resolve_sources, extract_sources, merge_sources)      *)
(* leaves content_blocks, raw_content, resolved_sources, errors and the     *)
(* skip reason unchanged.                                                   *)
C5_SkipPassThrough ==
    [][(/\ state.metadata.skip_source_processing
        /\ pc \in {"resolve_sources", "extract_sources", "merge_sources"})
       => /\ state'.content_blocks = state.content_blocks
          /\ state'.raw_content = state.raw_content
          /\ state'.resolved_sources = state.resolved_sources
          /\ state'.keys = state.keys
          /\ state'.errors = state.errors
          /\ state'.metadata.skip_source_processing
          /\ state'.metadata.skip_source_reason =
                 state.metadata.skip_source_reason]_vars

C5_Witness ==
    /\ pc = "route_by_output_type"
    /\ trace = <<"validate_sources", "resolve_sources", "extract_sources",
                 "merge_sources">>
    /\ state.metadata.skip_source_processing
    /\ state.metadata.skip_source_reason = "reused_content"
    /\ state.request_data.sources # <<>>

-----------------------------------------------------------------------------
(* C6: in every invocation validate_sources, resolve_sources,               *)
(* extract_sources and merge_sources each execute exactly once, in that     *)
(* order, before the router selects a branch.                               *)
C6_SharedChainOnce ==
    pc \notin SharedNodes =>
        /\ Len(trace) >= 4
        /\ SubSeq(trace, 1, 4) =
               <<"validate_sources", "resolve_sources", "extract_sources",
                 "merge_sources">>
        /\ \A i \in 5..Len(trace) : trace[i] \notin SharedNodes

-----------------------------------------------------------------------------
(* C7: in the document branch the nodes run in the order detect_format,     *)
(* parse_content, transform_content, enhance_content, generate_images,      *)
(* describe_images, persist_images, generate_output, validate_output; each  *)
(* node before generate_output runs exactly once and the only backward      *)
(* transition is validate_output to generate_output.  In the podcast branch *)
(* synthesize_audio runs exactly once, after generate_script.               *)
PodcastOrder == <<"podcast_generate_script", "podcast_synthesize_audio">>

-----------------------------------------------------------------------------
(* C8: the router returns one of the five branch tags, chosen from          *)
(* output_type alone, and one invocation executes the nodes of that single  *)
(* branch and of no other branch.                                           *)
NodeBranch(node) ==
    CASE node \in {DocOrder[i] : i \in 1..Len(DocOrder)} -> "document"
      [] node \in {PodcastOrder[i] : i \in 1..Len(PodcastOrder)} -> "podcast"
      [] node = "mindmap_generate" -> "mindmap"
      [] OTHER -> node

C8_SingleBranch ==
    /\ get_output_branch(state) \in Branches
    /\ get_output_branch(state) =
           (IF state.output_type \in DocumentTypes
            THEN "document" ELSE initial_state.output_type)
    /\ \A i \in 1..Len(BranchTrace) :
           NodeBranch(BranchTrace[i]) = get_output_branch(initial_state)

C8_Witness ==
    /\ Done
    /\ state.output_type = "image_edit"
    /\ BranchTrace = <<"image_edit">>

-----------------------------------------------------------------------------
(* C9 (as stated): when an invocation ends, the result field of its branch  *)
(* is populated if and only if errors is empty.                             *)
ResultPopulated(s) ==
    CASE get_output_branch(s) = "document" -> s.output_path # ""
      [] get_output_branch(s) = "podcast" -> s.podcast_audio # ""
      [] get_output_branch(s) = "mindmap" -> s.mindmap_tree # NoTree
      [] OTHER -> s.image_data # ""

C9_ResultIffNoErrors ==
    Done => (ResultPopulated(state) <=> state.errors = <<>>)

(* C9 (amended): when an invocation ends with empty errors, the result      *)
(* field of its branch is populated; a populated result may come with       *)
(* non-empty errors left by an earlier node.                                *)
C9_NoErrorsImpliesResult ==
    (Done /\ state.errors = <<>>) => ResultPopulated(state)

C9_Witness ==
    /\ Done
    /\ state.errors = <<>>
    /\ state.output_type = "podcast"
    /\ ResultPopulated(state)

-----------------------------------------------------------------------------
(* C10: every node is total: when a collaborator called inside a node       *)
(* fails, the exception never escapes the node.                             *)
C10_NoExceptionEscapes == ~escaped

-----------------------------------------------------------------------------
(* C11: an input error (no sources, unsupported file format, missing        *)
(* credential or prompt) is terminal and adds exactly one message for the   *)
(* whole invocation: the run ends with errors of length 1 and no retry is   *)
(* attempted.                                                               *)
InputErrorMessages ==
    {"No sources provided", "Excel files are not supported.",
     "Gemini API key required for TTS",
     "Gemini API key required for image generation",
     "Gemini API key required for image editing",
     "No prompt provided for image generation",
     "No edit instructions provided",
     "No source image provided for editing"}

HasInputError(s) ==
    \E i \in 1..Len(s.errors) : s.errors[i][1] \in InputErrorMessages

C11_InputErrorTerminal ==
    (Done /\ HasInputError(state)) =>
        /\ Len(state.errors) = 1
        /\ state.metadata.retry_count = 0
        /\ Len(gen_results) <= 1

-----------------------------------------------------------------------------
(* C12: when resolve_sources rejects an .xlsx/.xls file the branch is       *)
(* aborted: no branch node afterwards calls an external service or          *)
(* populates a result field, for every output type.                         *)
XlsxRejected(s) ==
    \E i \in 1..Len(s.errors) : s.errors[i] = <<"Excel files are not supported.">>

(* The image service is reached once the node is past its two input guards *)
ImageServiceCalled ==
    /\ \E i \in 1..Len(trace) : trace[i] = "image_generate"
    /\ state.gemini_api_key # ""
    /\ state.request_data.prompt # ""

C12_XlsxAbortsBranch ==
    XlsxRejected(state) =>
        /\ ~ImageServiceCalled
        /\ state.output_path = ""
        /\ state.mindmap_tree = NoTree
        /\ state.podcast_dialogue = <<>>
        /\ state.podcast_audio = ""
        /\ state.image_data = ""

-----------------------------------------------------------------------------
(* C13: validate_sources on a state with no reusable content and empty      *)
(* sources: on a document, podcast or mindmap output with no or a blank     *)
(* prompt it appends an error and sets skip reason no_sources; on           *)
(* image_generate with a non-blank prompt it appends no error and sets      *)
(* skip reason direct_prompt.                                               *)
NoReusableContent(s) == ~(s.metadata.reused_content /\ s.raw_content # <<>>)

C13_NoSourcesGuard ==
    [][(/\ pc = "validate_sources"
        /\ NoReusableContent(state)
        /\ state.request_data.sources = <<>>)
       => /\ (/\ state.output_type \in DocumentTypes \cup {"podcast", "mindmap"}
              /\ Strip(state.request_data.prompt) = "")
             => /\ state'.errors = Append(state.errors, <<"No sources provided">>)
                /\ state'.metadata.skip_source_processing
                /\ state'.metadata.skip_source_reason = "no_sources"
          /\ (/\ state.output_type = "image_generate"
              /\ Strip(state.request_data.prompt) # "")
             => /\ state'.errors = state.errors
                /\ state'.metadata.skip_source_processing
                /\ state'.metadata.skip_source_reason = "direct_prompt"]_vars

C13_Witness ==
    /\ pc = "resolve_sources"
    /\ state.output_type = "image_generate"
    /\ state.request_data.sources = <<>>
    /\ state.request_data.prompt = "p"
    /\ state.errors = <<>>
    /\ state.metadata.skip_source_reason = "direct_prompt"

-----------------------------------------------------------------------------
(* C14: generate_session_id is deterministic and order-insensitive: with    *)
(* the same user id, every permutation of a source list yields the same     *)
(* session key, and repeated calls on the same list yield the same key.     *)
Count(seq, x) == Cardinality({i \in 1..Len(seq) : seq[i] = x})

IsPermutation(a, b) ==
    /\ Len(a) = Len(b)
    /\ \A i \in 1..Len(a) : Count(a, a[i]) = Count(b, a[i])

C14_PermutationSameKey ==
    \A i, j \in 1..Len(sid_calls) :
        IsPermutation(sid_calls[i].sources, sid_calls[j].sources)
            => sid_calls[i].key = sid_calls[j].key

C14_Witness ==
    /\ Len(sid_calls) = 2
    /\ Len(sid_calls[1].sources) = 2
    /\ sid_calls[1].sources # sid_calls[2].sources
    /\ IsPermutation(sid_calls[1].sources, sid_calls[2].sources)
    /\ sid_calls[1].key.raised = ""
    /\ sid_calls[1].key = sid_calls[2].key

-----------------------------------------------------------------------------
(* C15: the session key is a function of the sorted normalized descriptors  *)
(* and the user id only: two source lists whose normalized descriptors      *)
(* form the same multiset yield the same key, even when the raw items       *)
(* differ in other fields.                                                  *)
RECURSIVE Descriptors(_)
Descriptors(sources) ==
    IF sources = <<>>
    THEN <<>>
    ELSE Descriptor(Head(sources)) \o Descriptors(Tail(sources))

C15_KeyOfDescriptorsOnly ==
    \A i, j \in 1..Len(sid_calls) :
        (/\ sid_calls[i].key.raised = ""
         /\ sid_calls[j].key.raised = ""
         /\ IsPermutation(Descriptors(sid_calls[i].sources),
                          Descriptors(sid_calls[j].sources)))
            => sid_calls[i].key = sid_calls[j].key

-----------------------------------------------------------------------------
(* C16: generate_session_id never errors and always returns a key of one    *)
(* fixed length, "session_" plus 24 hex digits, for every source list,      *)
(* including the empty list and items with missing or null fields; the      *)
(* empty list returns the same key on every call.                           *)
C16_AlwaysAKey ==
    /\ \A i \in 1..Len(sid_calls) :
          /\ sid_calls[i].key.raised = ""
          /\ sid_calls[i].key.prefix = "session_"
          /\ sid_calls[i].key.hex_digits = 24
    /\ \A i, j \in 1..Len(sid_calls) :
          (sid_calls[i].sources = <<>> /\ sid_calls[j].sources = <<>>)
              => sid_calls[i].key = sid_calls[j].key

-----------------------------------------------------------------------------
(* C17: cached content is reused only safely: whenever an invocation runs   *)
(* with injected checkpoint content (metadata.reused_content), that content *)
(* was extracted from a source set equal to the current request's sources   *)
(* for the same user, whether the session id was derived or supplied.       *)
SourceSet(sources) == {sources[i] : i \in 1..Len(sources)}

C17_ReuseOnlySameSources ==
    (call.active /\ initial_state.metadata.reused_content) =>
        /\ SourceSet(call.origin.sources) = SourceSet(call.sources)
        /\ call.origin.user_id = call.user_id

-----------------------------------------------------------------------------
(* C18: for two successive invocations on the same session id with          *)
(* different output types, the final state of the second contains no        *)
(* output-type-specific result field produced by the first.                 *)
OtherBranchResultsEmpty(s) ==
    /\ get_output_branch(s) # "document" => s.output_path = ""
    /\ get_output_branch(s) # "mindmap" => s.mindmap_tree = NoTree
    /\ get_output_branch(s) # "podcast" =>
           (s.podcast_dialogue = <<>> /\ s.podcast_audio = "")
    /\ get_output_branch(s) \notin {"image_generate", "image_edit"} =>
           s.image_data = ""

C18_NoResultCarriedOver ==
    (call.active /\ pc = "END") => OtherBranchResultsEmpty(state)

-----------------------------------------------------------------------------
(* C19: once the expiry sweep has removed a session, no checkpoint for that *)
(* session id remains retrievable: has_checkpoint is false and a later      *)
(* invocation with that id reuses no content.                               *)
C19_SweptSessionHasNoCheckpoint ==
    /\ \A session_id \in swept : ~has_checkpoint(session_id)
    /\ (call.active /\ call.was_swept) => ~initial_state.metadata.reused_content

-----------------------------------------------------------------------------
(* C20: construction of the checkpoint store is a single lock-guarded       *)
(* initialization: under any interleaving of concurrent first calls,        *)
(* exactly one saver and one session map are ever created, no caller        *)
(* observes a partly initialized store, and no stored checkpoint is         *)
(* replaced by a re-initialization.                                         *)
C20_SingleInitialization ==
    /\ cls.savers_created <= 1
    /\ cls.maps_created <= 1
    /\ ~cls.partial_seen
    /\ \A t \in DOMAIN thr : thr[t].pc # "crashed"
    /\ cls.stored \subseteq {cls.memory_saver}

-----------------------------------------------------------------------------
(* C21: under any interleaving of concurrent record_output_generated,       *)
(* set_session_metadata and cleanup_expired_sessions calls, no call fails   *)
(* and no recorded output type is lost: while no session has been deleted   *)
(* by the sweep, the output type of every finished record call is in the    *)
(* session's outputs_generated list.                                        *)
RecordedOutputs(session_id) ==
    LET l == meta_map.entries[session_id].outputs_generated
    IN {meta_map.lists[l][i] : i \in 1..Len(meta_map.lists[l])}

C21_NoLostRecordNoFailure ==
    \A t \in DOMAIN meta_thr :
        /\ meta_thr[t].pc # "failed"
        /\ (/\ meta_thr[t].op = "record"
            /\ meta_thr[t].pc = "done"
            /\ meta_map.deleted = {})
           => /\ meta_thr[t].session_id \in DOMAIN meta_map.entries
              /\ meta_thr[t].output_type
                     \in RecordedOutputs(meta_thr[t].session_id)

-----------------------------------------------------------------------------
(* C22: after two concurrent invocations on the same session id have both   *)
(* finished, the checkpoint slot holds the complete final state of the      *)
(* invocation that wrote last.                                              *)
BothFinished == \A i \in DOMAIN runs : runs[i].pc = "done"

C22_SlotHoldsFinalStateOfLastWriter ==
    (BothFinished /\ runs # <<>>)
        => /\ slot.exists
           /\ slot.values = runs[slot.writer].result

-----------------------------------------------------------------------------
(* C23: no node writes process-global state, and under any interleaving of  *)
(* two concurrent invocations with different API keys every LLM call made   *)
(* for an invocation uses the key supplied to that invocation.              *)
C23_OwnKeyNoGlobalWrite ==
    /\ \A v \in DOMAIN environ : environ[v] = ""
    /\ \A t \in DOMAIN llm :
          llm[t].pc = "done" => llm[t].used_key = SuppliedKey(t)

-----------------------------------------------------------------------------
(* C24: synthesize_with_retry calls the provider at most max_retries times; *)
(* every call but the last failed with a retryable error and was followed   *)
(* by exactly one wait; it returns on the first successful call; a          *)
(* non-retryable error, or a retryable error on the last attempt, is raised *)
(* at once, with no further call and no wait after it.                      *)
C24_BoundedRetry ==
    tts # <<>> =>
    LET n == Len(tts.calls)
        w == Len(tts.waits)
    IN
    /\ n <= tts.max_retries
    /\ \A k \in 1..n :
          k < n => tts.calls[k] # {"audio"} /\ retryable(tts.calls[k])
    /\ \A j \in 1..w :
          /\ j <= n
          /\ j < tts.max_retries
          /\ retryable(tts.calls[j])
    /\ tts.pc = "loop" => w = n
    /\ tts.pc = "sleep" => w + 1 = n
    /\ tts.pc = "done" =>
          /\ n = 0 => w = 0 /\ tts.max_retries = 0 /\ tts.result = "raised"
          /\ n > 0 =>
                /\ w + 1 = n
                /\ IF tts.calls[n] = {"audio"}
                   THEN tts.result = "returned"
                   ELSE /\ tts.result = "raised"
                        /\ tts.raised = tts.calls[n]
                        /\ ~retryable(tts.calls[n]) \/ n = tts.max_retries

(* Two retryable failures were waited for and the last attempt failed too   *)
C24_Witness ==
    /\ tts # <<>>
    /\ tts.pc = "done"
    /\ tts.max_retries = default_max_retries
    /\ Len(tts.calls) = default_max_retries
    /\ Len(tts.waits) = default_max_retries - 1
    /\ tts.result = "raised"
    /\ retryable(tts.raised)

-----------------------------------------------------------------------------
(* C25: a JSON object inside a fenced block with prose before and after is  *)
(* recovered as exactly that object; a text without an opening brace gives  *)
(* no result, and no exception is raised.                                   *)
C25_TolerantJson ==
    (jx # <<>> /\ jx.done) =>
        /\ jx.result.raised = ""
        /\ jx.kind = "wrapped" =>
              ~jx.result.none /\ jx.result.value = jx.object
        /\ jx.kind = "plain" => jx.result.none

-----------------------------------------------------------------------------
(* C26 (as stated): for a request whose only source is one non-blank text   *)
(* item and whose output type is mindmap, extract_sources yields exactly    *)
(* one content block titled "Copied Text", raw_content after merge_sources  *)
(* is the trimmed text, and when the LLM returns a tree JSON the tree's     *)
(* nodes equal that JSON's central_node.                                    *)
OneTextMindmapRequest ==
    LET sources == initial_state.request_data.sources IN
    /\ initial_state.output_type = "mindmap"
    /\ Len(sources) = 1
    /\ sources[1].type = "text"
    /\ Strip(sources[1].content) # ""

TrimmedText == Strip(initial_state.request_data.sources[1].content)

Ran(node) == \E i \in 1..Len(trace) : trace[i] = node

ExampleHolds(answers) ==
    /\ pc = "merge_sources" =>
          state.content_blocks = <<Block("Copied Text", "text", TrimmedText)>>
    /\ Ran("merge_sources") =>
          state.raw_content = <<Section("", "", TrimmedText)>>
    /\ Ran("mindmap_generate") =>
          \A d \in answers :
              (state.mindmap_tree.title = d.title)
                  => state.mindmap_tree.nodes = d.central_node

ResolutionFailed ==
    \E i \in 1..Len(state.errors) :
        state.errors[i][1] = "Source resolution failed"

RECURSIVE InPromptFormat(_)
InPromptFormat(node) ==
    /\ node # NoNode
    /\ node.has_children => node.children # <<>>
    /\ \A i \in 1..Len(node.children) : InPromptFormat(node.children[i])

-----------------------------------------------------------------------------
(* The image nodes the graph is built with (nodes/image_nodes.py), on their *)
(* full request: style, output format, free-text flag, edit mode, region.   *)
(* img holds the state the node works on and the calls it makes on the      *)
(* image service.                                                           *)

ImageFrame ==
    UNCHANGED <<wfvars, sessvars, sidvars, singvars,
                metavars, racevars, envvars, tts, jx,
                api, tmpf, norm, upl, evs>>

NoStyle == [name |-> "", supports_svg |-> FALSE]

(* get_style_by_id: a style that supports SVG, one that does not, None for  *)
(* an id that is not registered                                             *)
get_style_by_id(style_id) ==
    CASE style_id = "vector_style" -> [name |-> "Vector", supports_svg |-> TRUE]
      [] style_id = "raster_style" -> [name |-> "Raster", supports_svg |-> FALSE]
      [] OTHER -> NoStyle

StyleIds == {"", "vector_style", "raster_style", "unregistered"}

OutputFormats == {"raster", "svg"}

EditModes == {"basic", "style_transfer", "region"}

(* None: the schema requires a positive width and height of a region *)
NoRegion == [x |-> 0, y |-> 0, width |-> 0, height |-> 0]

Regions == {NoRegion, [x |-> 0, y |-> 0, width |-> 1, height |-> 1]}

ImageRequest(prompt, style, output_format, free_text_mode, image, edit_mode,
             region) ==
    [prompt |-> prompt, style |-> style, output_format |-> output_format,
     free_text_mode |-> free_text_mode, image |-> image,
     edit_mode |-> edit_mode, region |-> region]

GenerateRequests ==
    {ImageRequest(p, s, f, m, "", "basic", NoRegion) :
        p \in {"", "p"}, s \in StyleIds, f \in OutputFormats, m \in BOOLEAN}

EditRequests ==
    {ImageRequest(p, s, "raster", FALSE, i, e, r) :
        p \in {"", "p"}, s \in {"", "raster_style"}, i \in {"", "img"},
        e \in EditModes, r \in Regions}

(* The state an image node is given *)
ImageState(node, request_data, key) ==
    [node |-> node, request_data |-> request_data, gemini_api_key |-> key,
     errors |-> <<>>, image_data |-> "", image_output_format |-> "",
     completed |-> FALSE, calls |-> <<>>, done |-> FALSE]

ImageError(s, msg) == [s EXCEPT !.errors = Append(@, msg), !.done = TRUE]

ServiceCall(method, style, region) ==
    [method |-> method, style |-> style, region |-> region]

(* image_nodes.generate_image_node *)
image_nodes_generate_image_node(s, outcome, exc) ==
    LET request_data == s.request_data
        style == IF request_data.style # "" /\ ~request_data.free_text_mode
                 THEN get_style_by_id(request_data.style) ELSE NoStyle
        method == IF request_data.output_format = "svg"
                  THEN "generate_svg" ELSE "generate_raster_image"
        called == [s EXCEPT !.calls = Append(@, ServiceCall(method, style, NoRegion))]
    IN
    IF s.gemini_api_key = ""
    THEN ImageError(s, <<"Gemini API key required for image generation">>)
    ELSE IF request_data.prompt = ""
    THEN ImageError(s, <<"No prompt provided for image generation">>)
    ELSE CASE outcome = "unavailable" ->
                ImageError(s, <<"Image service not available">>)
           [] outcome = "ok" ->
                [called EXCEPT !.image_data = "image",
                               !.image_output_format =
                                   IF method = "generate_svg" THEN "svg" ELSE "png",
                               !.completed = TRUE,
                               !.done = TRUE]
           [] outcome = "none" ->
                ImageError(called, <<"Image generation returned no data">>)
           [] OTHER -> ImageError(called, <<"Image generation failed", exc>>)

(* image_nodes.edit_image_node *)
image_nodes_edit_image_node(s, outcome, exc) ==
    LET request_data == s.request_data
        style == IF request_data.style # "" /\ request_data.edit_mode = "style_transfer"
                 THEN get_style_by_id(request_data.style) ELSE NoStyle
        region_dict == IF request_data.region # NoRegion
                          /\ request_data.edit_mode = "region"
                       THEN request_data.region ELSE NoRegion
        called == [s EXCEPT !.calls =
                       Append(@, ServiceCall("edit_image", style, region_dict))]
    IN
    IF s.gemini_api_key = ""
    THEN ImageError(s, <<"Gemini API key required for image editing">>)
    ELSE IF request_data.image = ""
    THEN ImageError(s, <<"No source image provided for editing">>)
    ELSE IF request_data.prompt = ""
    THEN ImageError(s, <<"No edit instructions provided">>)
    ELSE CASE outcome = "unavailable" ->
                ImageError(s, <<"Image service not available">>)
           [] outcome = "ok" ->
                [called EXCEPT !.image_data = "edited",
                               !.image_output_format = "png",
                               !.completed = TRUE,
                               !.done = TRUE]
           [] outcome = "none" ->
                ImageError(called, <<"Image editing returned no data">>)
           [] OTHER -> ImageError(called, <<"Image editing failed", exc>>)

(* The graph's image_generate node runs *)
ImageNodeGenerate ==
    /\ img.node = "image_generate"
    /\ ~img.done
    /\ \E outcome \in ImageOutcomes, exc \in ExcText :
          img' = image_nodes_generate_image_node(img, outcome, exc)
    /\ ImageFrame

(* The graph's image_edit node runs *)
ImageNodeEdit ==
    /\ img.node = "image_edit"
    /\ ~img.done
    /\ \E outcome \in ImageOutcomes, exc \in ExcText :
          img' = image_nodes_edit_image_node(img, outcome, exc)
    /\ ImageFrame

InitImage ==
    /\ img \in {ImageState("image_generate", r, k) :
                    r \in GenerateRequests, k \in {"", "key"}}
               \cup {ImageState("image_edit", r, k) :
                        r \in EditRequests, k \in {"", "key"}}
    /\ NoWorkflow
    /\ NoSessions
    /\ NoSessionIdCalls
    /\ NoThreads
    /\ NoTmp
    /\ NoNorm
    /\ NoUpl
    /\ NoEvs
    /\ NoMetaCalls
    /\ NoRace
    /\ NoLlmCalls
    /\ NoTts
    /\ NoJson
    /\ NoApi

NextImage == ImageNodeGenerate \/ ImageNodeEdit

SpecImage == InitImage /\ [][NextImage]_vars

(* The style the node resolves for the request *)
ResolvedStyle(request_data) ==
    IF request_data.style # "" /\ ~request_data.free_text_mode
    THEN get_style_by_id(request_data.style) ELSE NoStyle

(* C27: the image-generate node of the graph, given output_format svg and   *)
(* a resolved style whose supports_svg is false, appends an error, makes no *)
(* call on the image service and sets no image_data.                        *)
C27_SvgRejectedWithoutVectorSupport ==
    (/\ img.node = "image_generate"
     /\ img.done
     /\ img.request_data.output_format = "svg"
     /\ ResolvedStyle(img.request_data) # NoStyle
     /\ ~ResolvedStyle(img.request_data).supports_svg)
        => /\ img.errors # <<>>
           /\ img.calls = <<>>
           /\ img.image_data = ""

(* C28: the image-edit node reports an error and makes no call on the image *)
(* service when the source image or the instructions are missing, or when   *)
(* edit_mode is region and no region is supplied.                           *)
C28_EditRequiresImagePromptRegion ==
    (/\ img.node = "image_edit"
     /\ img.done
     /\ \/ img.request_data.image = ""
        \/ img.request_data.prompt = ""
        \/ /\ img.request_data.edit_mode = "region"
           /\ img.request_data.region = NoRegion)
        => /\ img.errors # <<>>
           /\ img.calls = <<>>
           /\ img.image_data = ""

-----------------------------------------------------------------------------
(* The generation routes: each handler takes the API keys of the request's  *)
(* headers, answers 401 or starts the workflow.  api holds one request and  *)
(* its response; status 0 stands for a request not yet handled.             *)

ApiFrame ==
    UNCHANGED <<wfvars, sessvars, sidvars, singvars,
                metavars, racevars, envvars, tts, jx,
                img, tmpf, norm, upl, evs>>

ApiProviders == {"gemini", "openai"}

(* APIKeys as extract_api_keys builds it from the headers; "" is None *)
APIKeys(google, openai, image) ==
    [google |-> google, openai |-> openai, image |-> image]

ApiKeySets ==
    {APIKeys(g, o, i) : g \in {"", "gk"}, o \in {"", "ok"}, i \in {"", "ik"}}

(* get_api_key_for_provider: the key of the provider; "" stands for the     *)
(* HTTPException with status 401 it raises when that key is absent          *)
get_api_key_for_provider(provider, api_keys) ==
    IF provider \in {"gemini", "google"} THEN api_keys.google ELSE api_keys.openai

ApiRequest(route, provider, has_sources, api_keys, x_gemini_key, style,
           output_format) ==
    [route |-> route, provider |-> provider, has_sources |-> has_sources,
     api_keys |-> api_keys, x_gemini_key |-> x_gemini_key, style |-> style,
     output_format |-> output_format,
     status |-> 0, body |-> "", workflow_started |-> FALSE]

StreamRoutes == {"generate", "generate_mindmap", "generate_podcast"}

ApiRequests ==
    {ApiRequest(r, p, TRUE, k, "", "", "raster") :
        r \in StreamRoutes, p \in ApiProviders, k \in ApiKeySets}
    \cup {ApiRequest("generate_image", p, s, k, x, st, f) :
            p \in ApiProviders, s \in BOOLEAN, k \in ApiKeySets,
            x \in {"", "xk"}, st \in {"", "raster_style"}, f \in OutputFormats}

Respond(a, status, body, started) ==
    [a EXCEPT !.status = status, !.body = body, !.workflow_started = started]

(* routes/podcast.generate_podcast *)
generate_podcast(a) ==
    LET api_key == get_api_key_for_provider(a.provider, a.api_keys)
        gemini_api_key == a.api_keys.google
    IN
    IF api_key = ""
    THEN Respond(a, 401, "error", FALSE)
    ELSE IF gemini_api_key = ""
    THEN Respond(a, 401, "error", FALSE)
    ELSE Respond(a, 200, "stream", TRUE)

(* routes/mindmap.generate_mindmap; the generate route is taken to do the   *)
(* same                                                                     *)
generate_mindmap(a) ==
    LET api_key == get_api_key_for_provider(a.provider, a.api_keys) IN
    IF api_key = ""
    THEN Respond(a, 401, "error", FALSE)
    ELSE Respond(a, 200, "stream", TRUE)

WorkflowResults == {"errors", "image", "nodata", "raise"}

(* routes/image.generate_image: the HTTPException raised again for a        *)
(* provider other than gemini is caught by the handler's own                *)
(* except Exception and answered as a failed generation                     *)
generate_image(a, workflow_result) ==
    LET image_api_key ==
            IF a.x_gemini_key # "" THEN a.x_gemini_key
            ELSE IF a.api_keys.image # "" THEN a.api_keys.image
            ELSE a.api_keys.google
        style == IF a.style # "" THEN get_style_by_id(a.style) ELSE NoStyle
        provider_key == get_api_key_for_provider(a.provider, a.api_keys)
    IN
    IF image_api_key = ""
    THEN Respond(a, 401, "error", FALSE)
    ELSE IF a.output_format = "svg" /\ style # NoStyle /\ ~style.supports_svg
    THEN Respond(a, 200, "failed", FALSE)
    ELSE IF a.has_sources /\ provider_key = ""
            /\ a.provider \notin {"gemini", "google"}
    THEN Respond(a, 200, "failed", FALSE)
    ELSE Respond(a, 200,
                 IF workflow_result = "image" THEN "image" ELSE "failed",
                 TRUE)

Pending(route) ==
    /\ api.route = route
    /\ api.status = 0

GenerateDocumentRoute ==
    /\ Pending("generate")
    /\ api' = generate_mindmap(api)
    /\ ApiFrame

GenerateMindmapRoute ==
    /\ Pending("generate_mindmap")
    /\ api' = generate_mindmap(api)
    /\ ApiFrame

GeneratePodcastRoute ==
    /\ Pending("generate_podcast")
    /\ api' = generate_podcast(api)
    /\ ApiFrame

GenerateImageRoute ==
    /\ Pending("generate_image")
    /\ \E workflow_result \in WorkflowResults :
          api' = generate_image(api, workflow_result)
    /\ ApiFrame

InitApi ==
    /\ api \in ApiRequests
    /\ NoWorkflow
    /\ NoSessions
    /\ NoSessionIdCalls
    /\ NoThreads
    /\ NoTmp
    /\ NoNorm
    /\ NoUpl
    /\ NoEvs
    /\ NoMetaCalls
    /\ NoRace
    /\ NoLlmCalls
    /\ NoTts
    /\ NoJson
    /\ NoImg

NextApi ==
    \/ GenerateDocumentRoute
    \/ GenerateMindmapRoute
    \/ GeneratePodcastRoute
    \/ GenerateImageRoute

SpecApi == InitApi /\ [][NextApi]_vars

(* The API key the request needs is absent *)
NeededKeyAbsent(a) ==
    LET provider_key == get_api_key_for_provider(a.provider, a.api_keys) IN
    CASE a.route = "generate_podcast" ->
           provider_key = "" \/ a.api_keys.google = ""
      [] a.route = "generate_image" ->
           \/ a.x_gemini_key = "" /\ a.api_keys.image = "" /\ a.api_keys.google = ""
           \/ /\ a.has_sources
              /\ a.provider \notin {"gemini", "google"}
              /\ provider_key = ""
      [] OTHER -> provider_key = ""

(* C29: a generation request whose needed API key is absent (no key at all, *)
(* a key for another provider than the selected one, or, for podcasts, no   *)
(* Gemini key) is answered with status 401 and no workflow node runs.       *)
C29_MissingKeyRejected401 ==
    (api.status # 0 /\ NeededKeyAbsent(api))
        => /\ api.status = 401
           /\ ~api.workflow_started

-----------------------------------------------------------------------------
(* C30 (as stated): in every reachable state of a document run _retry_count *)
(* is in 0..max_retries, it never decreases, it changes only on the retry   *)
(* edge from validate_output to generate_output, by exactly one per retry,  *)
(* and the number of generate_output invocations so far is _retry_count + 1 *)
DocumentRun == is_document_type(initial_state.output_type)

RetryCountBounded ==
    /\ state.metadata.retry_count >= 0
    /\ state.metadata.retry_count <= max_retries

RetryEdgeTaken ==
    /\ pc = "should_retry_document"
    /\ pc' = "doc_generate_output"

RetryCountStep ==
    /\ state'.metadata.retry_count >= state.metadata.retry_count
    /\ state'.metadata.retry_count # state.metadata.retry_count => RetryEdgeTaken
    /\ RetryEdgeTaken
         => state'.metadata.retry_count = state.metadata.retry_count + 1

C30_RetryCounterEveryState ==
    /\ [](DocumentRun =>
            /\ RetryCountBounded
            /\ Len(gen_results) = state.metadata.retry_count + 1)
    /\ [][DocumentRun => RetryCountStep]_vars

(* C30 (amended): the same, with the number of generate_output invocations  *)
(* equal to _retry_count + 1 from the first invocation on, except while a   *)
(* retry is pending (the retry edge was taken and generate_output has not   *)
(* run again), when it equals _retry_count; before the first invocation     *)
(* both are 0.                                                              *)
RetryPending == pc = "doc_generate_output" /\ Len(gen_results) > 0

InvocationsMatchRetryCount ==
    Len(gen_results) =
        IF Len(gen_results) = 0 \/ RetryPending
        THEN state.metadata.retry_count
        ELSE state.metadata.retry_count + 1

C30_RetryCounter ==
    /\ [](DocumentRun => RetryCountBounded /\ InvocationsMatchRetryCount)
    /\ [][DocumentRun => RetryCountStep]_vars

(* A document run with its second retry pending *)
C30_Witness ==
    /\ DocumentRun
    /\ RetryPending
    /\ state.metadata.retry_count = 2
    /\ Len(gen_results) = 2

-----------------------------------------------------------------------------
(* C31: both routing functions (route_by_output_type and the retry decision *)
(* after validate_output) compute the next node without mutating the state: *)
(* the state after a routing decision equals the state before it in every   *)
(* field, metadata included.                                                *)
RoutingDecision == pc \in {"route_by_output_type", "should_retry_document"}

C31_RoutersDoNotMutate == [][RoutingDecision => state' = state]_vars

-----------------------------------------------------------------------------
(* C32: errors is append-only within an invocation: across every node,      *)
(* document-node wrapper, retry round and the exception handler of the run  *)
(* function, the errors list before a step is a prefix of the list after.   *)
IsPrefix(s, u) == Len(s) <= Len(u) /\ SubSeq(u, 1, Len(s)) = s

C32_ErrorsAppendOnly == [][IsPrefix(state.errors, state'.errors)]_vars

(* A run that reported an error in each of two rounds of the retry loop *)
C32_Witness ==
    /\ pc = "END"
    /\ state.metadata.retry_count >= 1
    /\ Len(state.errors) >= 2

-----------------------------------------------------------------------------
(* C33: validate_sources sets skip reason reused_content exactly when the   *)
(* output type requires extraction, metadata.reused_content is true,        *)
(* raw_content is non-empty and, for document output types, input_path      *)
(* names a file that still exists; when that file is gone for a document    *)
(* output the sources are processed again and the cached raw_content is     *)
(* never what the branch consumes.                                          *)
ReusableAtStart ==
    /\ requires_content_extraction(initial_state.output_type)
    /\ initial_state.metadata.reused_content
    /\ initial_state.raw_content # <<>>

ReasonReused == skip_source_reason(state) = "reused_content"

(* The nodes of the branches that read raw_content *)
RawContentConsumers ==
    {"doc_detect_format", "doc_parse_content", "doc_transform_content",
     "mindmap_generate", "podcast_generate_script"}

C33_ReuseOnlyWithLiveFile ==
    /\ (Ran("validate_sources") /\ ~escaped) =>
          /\ ReasonReused =>
                /\ ReusableAtStart
                /\ DocumentRun => initial_state.input_path # ""
          /\ (ReusableAtStart /\ ~DocumentRun) => ReasonReused
    /\ (DocumentRun /\ ReusableAtStart /\ ~ReasonReused
            /\ pc \in RawContentConsumers)
          => state.raw_content # initial_state.raw_content

-----------------------------------------------------------------------------
(* C34: extract_sources, when not skipped, stores one {title, source,       *)
(* content} block per resolved source that yields content, in source order; *)
(* when no block results it appends one error, sets skip reason             *)
(* no_valid_sources and leaves content_blocks unset; metadata.source_count  *)
(* equals the number of blocks stored.                                      *)
ExtractRuns == pc = "extract_sources" /\ ~should_skip_source_processing(state)

(* What a block of the resolved source would carry in its source field *)
BlockSource(src) ==
    CASE src.type = "file" -> src.file_path
      [] src.type = "url" -> src.url
      [] OTHER -> "text"

(* blocks follow the resolved sources in order, one block per source at     *)
(* most, and no text source is left out                                     *)
RECURSIVE BlocksFollow(_, _)
BlocksFollow(blocks, resolved) ==
    IF resolved = <<>>
    THEN blocks = <<>>
    ELSE LET src == Head(resolved) IN
         \/ /\ blocks # <<>>
            /\ Head(blocks).source = BlockSource(src)
            /\ Head(blocks).content # ""
            /\ BlocksFollow(Tail(blocks), Tail(resolved))
         \/ /\ src.type # "text"
            /\ BlocksFollow(blocks, Tail(resolved))

StoredBlocks(s) == IF "content_blocks" \in s.keys THEN s.content_blocks ELSE <<>>

ExtractionRaised(s) == skip_source_reason(s) = "extraction_failed"

C34_ExtractStep ==
    ExtractRuns =>
        /\ ~ExtractionRaised(state')
              => BlocksFollow(StoredBlocks(state'), state.resolved_sources)
        /\ (StoredBlocks(state') = <<>> /\ ~ExtractionRaised(state'))
              => /\ Len(state'.errors) = Len(state.errors) + 1
                 /\ skip_source_reason(state') = "no_valid_sources"
                 /\ "content_blocks" \notin state'.keys
        /\ state'.metadata.source_count = Len(StoredBlocks(state'))

C34_ExtractAccumulates == [][C34_ExtractStep]_vars

-----------------------------------------------------------------------------
(* Temp files: merge_sources invocations of several sessions running at the *)
(* same time, each statement of write_temp_markdown a step, next to the     *)
(* older service that collects its sources into one fixed file.  uuid4 is   *)
(* taken to return a value it has not returned before.                      *)

MaxMerges == 2

MaxUuids == 3

MaxCollects == 2

Merges == 1..MaxMerges

Uuids == 1..MaxUuids

TempFrame ==
    UNCHANGED <<wfvars, sessvars, sidvars, singvars,
                metavars, racevars, envvars, tts, jx,
                img, api, norm, upl, evs>>

(* temp_dir / temp_input_<uuid>.md, and upload_dir / temp_input.md *)
TempFile(u) == [dir |-> "temp_dir", name |-> <<"temp_input_", u>>]

CollectedFile == [dir |-> "upload_dir", name |-> <<"temp_input">>]

TempPaths == {TempFile(u) : u \in Uuids} \cup {CollectedFile}

NoPath == [dir |-> "", name |-> <<>>]

NoFile == [text |-> <<>>, writes |-> 0]

(* Path.write_text: creates the file or replaces what it holds *)
write_text(files, path, text) ==
    [files EXCEPT ![path] = [text |-> text, writes |-> @.writes + 1]]

MergeInputs ==
    {[output_type |-> o, content_blocks |-> b, skip |-> k] :
        o \in {"article_pdf", "mindmap"},
        b \in {<<>>, <<Block("Copied Text", "text", "Alpha")>>},
        k \in BOOLEAN}

IdleMerge ==
    [pos |-> "idle", output_type |-> "", skip |-> FALSE, content_blocks |-> <<>>,
     keys |-> {}, raw_content |-> <<>>, input_path |-> NoPath,
     temp_path |-> NoPath]

(* Faulty variant: one fixed file name, as the older service uses *)
fresh_temp_path_fixed(u) == TempFile(1)

(* temp_dir / f"temp_input_{uuid.uuid4().hex}.md" *)
fresh_temp_path(u) == TempFile(u)

(* merge_sources_node is entered with the state extract_sources left *)
MergeEnter(m) ==
    /\ tmpf.merges[m].pos = "idle"
    /\ \E in \in MergeInputs :
          tmpf' = [tmpf EXCEPT !.merges[m] =
                      [IdleMerge EXCEPT
                          !.pos = "entered",
                          !.output_type = in.output_type,
                          !.skip = in.skip,
                          !.content_blocks = in.content_blocks,
                          !.keys = {"resolved_sources"}
                                     \cup (IF in.content_blocks # <<>>
                                           THEN {"content_blocks"} ELSE {})]]
    /\ TempFrame

(* The skip test, the empty-blocks test, the merge of the blocks *)
MergeContent(m) ==
    LET r == tmpf.merges[m] IN
    /\ r.pos = "entered"
    /\ tmpf' = [tmpf EXCEPT !.merges[m] =
          IF r.skip \/ r.content_blocks = <<>>
          THEN [r EXCEPT !.pos = "returned"]
          ELSE IF is_document_type(r.output_type)
          THEN [r EXCEPT !.pos = "write_temp_markdown",
                         !.raw_content = merge_markdown_sources(r.content_blocks)]
          ELSE [r EXCEPT !.pos = "pop",
                         !.raw_content = JoinContents(r.content_blocks)]]
    /\ TempFrame

(* write_temp_markdown: the path is made from a new uuid4 *)
MergeDrawPath(m) ==
    LET r == tmpf.merges[m] IN
    /\ r.pos = "write_temp_markdown"
    /\ \E u \in Uuids \ tmpf.drawn :
          tmpf' = [tmpf EXCEPT !.drawn = @ \cup {u},
                               !.merges[m].temp_path = fresh_temp_path(u),
                               !.merges[m].pos = "write_text"]
    /\ TempFrame

(* temp_path.write_text(content): writes, or raises out of the node *)
MergeWriteText(m) ==
    LET r == tmpf.merges[m] IN
    /\ r.pos = "write_text"
    /\ \/ tmpf' = [tmpf EXCEPT
                      !.files = write_text(@, r.temp_path, r.raw_content),
                      !.merges[m].input_path = r.temp_path,
                      !.merges[m].pos = "pop"]
       \/ tmpf' = [tmpf EXCEPT !.merges[m].pos = "raised"]
    /\ TempFrame

(* state.pop("content_blocks"), state.pop("resolved_sources"); return *)
MergePop(m) ==
    LET r == tmpf.merges[m] IN
    /\ r.pos = "pop"
    /\ tmpf' = [tmpf EXCEPT
                   !.merges[m].keys = @ \ {"content_blocks", "resolved_sources"},
                   !.merges[m].content_blocks = <<>>,
                   !.merges[m].pos = "merged"]
    /\ TempFrame

CollectedText == <<Section("", "", "Combined")>>

(* GenerationService._collect_sources writes upload_dir / temp_input.md *)
CollectSources ==
    /\ tmpf.files[CollectedFile].writes < MaxCollects
    /\ tmpf' = [tmpf EXCEPT
                   !.files = write_text(@, CollectedFile, CollectedText)]
    /\ TempFrame

(* The file a checkpoint refers to, written by an earlier merge *)
CheckpointFile == TempFile(1)

CheckpointText == <<Section("Cached", "", "Old")>>

InitTemp ==
    /\ tmpf = [files |-> [p \in TempPaths |->
                            IF p = CheckpointFile
                            THEN [text |-> CheckpointText, writes |-> 1]
                            ELSE NoFile],
               drawn |-> {1},
               merges |-> [m \in Merges |-> IdleMerge]]
    /\ NoWorkflow
    /\ NoSessions
    /\ NoSessionIdCalls
    /\ NoThreads
    /\ NoMetaCalls
    /\ NoRace
    /\ NoLlmCalls
    /\ NoTts
    /\ NoJson
    /\ NoImg
    /\ NoApi
    /\ NoNorm
    /\ NoUpl
    /\ NoEvs

NextTemp ==
    \/ \E m \in Merges :
          \/ MergeEnter(m)
          \/ MergeContent(m)
          \/ MergeDrawPath(m)
          \/ MergeWriteText(m)
          \/ MergePop(m)
    \/ CollectSources

SpecTemp == InitTemp /\ [][NextTemp]_vars

(* C35: for document outputs each successful merge_sources writes the       *)
(* merged markdown to a fresh temp file: no other merge, earlier or         *)
(* concurrent, has written the path it stores in input_path, so the file a  *)
(* checkpoint refers to is never overwritten; afterwards content_blocks and *)
(* resolved_sources are absent from the state.                              *)
MergedDocument(m) ==
    /\ tmpf.merges[m].pos = "merged"
    /\ is_document_type(tmpf.merges[m].output_type)

C35_FreshTempFile ==
    /\ \A m \in Merges :
          MergedDocument(m) =>
              LET r == tmpf.merges[m] IN
              /\ r.input_path # NoPath
              /\ r.input_path # CheckpointFile
              /\ tmpf.files[r.input_path] = [text |-> r.raw_content, writes |-> 1]
              /\ \A n \in Merges \ {m} :
                    tmpf.merges[n].temp_path # r.input_path
    /\ tmpf.files[CheckpointFile] = [text |-> CheckpointText, writes |-> 1]
    /\ \A m \in Merges :
          tmpf.merges[m].pos = "merged" =>
              tmpf.merges[m].keys \cap {"content_blocks", "resolved_sources"} = {}

(* Two document merges ran at the same time and both finished *)
C35_Witness ==
    /\ \A m \in Merges : MergedDocument(m)
    /\ tmpf.files[CollectedFile].writes > 0

-----------------------------------------------------------------------------
(* C36: the balanced-brace scan respects string and escape state: starting  *)
(* at the first '{', braces inside double-quoted strings (also strings with *)
(* escaped quotes or backslashes) do not change the depth and the candidate *)
(* ends at the '}' that closes the first '{'; hence any text whose first    *)
(* '{' opens a valid JSON object yields that object.                        *)
ScanEndsAtClosingBrace ==
    LET cleaned == CutFences(StripWs(jx.text))
        start_idx == Find(cleaned, "{", 1)
        end_idx == MatchBrace(cleaned, start_idx, 0, FALSE, FALSE)
    IN /\ start_idx > 0
       /\ end_idx = start_idx + Len(jx.object) - 1
       /\ SubSeq(cleaned, start_idx, end_idx) = jx.object

C36_FirstObjectRecovered ==
    (jx # <<>> /\ jx.kind = "first") =>
        /\ ScanEndsAtClosingBrace
        /\ jx.done =>
              /\ jx.result.raised = ""
              /\ ~jx.result.none
              /\ jx.result.value = jx.object

-----------------------------------------------------------------------------
(* Mind-map normalization over parsed JSON of any shape.  A JSON value is a *)
(* record of its Python type t, its text s (scalars), its items (lists) and *)
(* its members f (objects).                                                 *)

MaxItems == 2

NormFrame ==
    UNCHANGED <<wfvars, sessvars, sidvars, singvars,
                metavars, racevars, envvars, tts, jx,
                img, api, tmpf, upl, evs>>

NoMembers == [k \in {} |-> 0]

JNull == [t |-> "NoneType", s |-> "", items |-> <<>>, f |-> NoMembers]

JNum(s) == [t |-> "int", s |-> s, items |-> <<>>, f |-> NoMembers]

JStr(s) == [t |-> "str", s |-> s, items |-> <<>>, f |-> NoMembers]

JList(items) == [t |-> "list", s |-> "", items |-> items, f |-> NoMembers]

JDict(f) == [t |-> "dict", s |-> "", items |-> <<>>, f |-> f]

(* bool(v) *)
Truthy(v) ==
    CASE v.t = "NoneType" -> FALSE
      [] v.t = "int" -> v.s # "0"
      [] v.t = "str" -> v.s # ""
      [] v.t = "list" -> v.items # <<>>
      [] v.t = "dict" -> DOMAIN v.f # {}

(* dict.get(key, default) *)
JGet(d, key, default) == IF key \in DOMAIN d.f THEN d.f[key] ELSE default

(* a or b *)
Or(a, b) == IF Truthy(a) THEN a ELSE b

(* The elements "for child in children" visits that are dicts; iterating a  *)
(* str gives its characters and iterating a dict gives its keys, none of    *)
(* them a dict; None and int are not iterable                               *)
Iterable(children) == children.t \in {"list", "str", "dict"}

DictItems(children) ==
    IF children.t = "list"
    THEN SelectSeq(children.items, LAMBDA c : c.t = "dict")
    ELSE <<>>

OutNode(label, has_children, children) ==
    [label |-> label, has_children |-> has_children, children |-> children]

Returned(node) == [raised |-> "", node |-> node]

Raises(exc) == [raised |-> exc, node |-> OutNode(JNull, FALSE, <<>>)]

(* The exception of the first element whose parse raises, "" when none *)
RECURSIVE FirstRaised(_)
FirstRaised(results) ==
    IF results = <<>>
    THEN ""
    ELSE IF Head(results).raised # ""
    THEN Head(results).raised
    ELSE FirstRaised(Tail(results))

(* _parse_mindmap_item on any value: .get on a value that is no dict raises *)
(* AttributeError, iterating None or a number raises TypeError              *)
RECURSIVE ParseMindmapItem(_)
ParseMindmapItem(node_data) ==
    IF ~Truthy(node_data)
    THEN Returned(OutNode(JStr("Unknown"), TRUE, <<>>))
    ELSE IF node_data.t # "dict"
    THEN Raises("AttributeError")
    ELSE LET label == JGet(node_data, "label",
                          JGet(node_data, "name",
                              JGet(node_data, "text", JStr("Node"))))
             children == JGet(node_data, "children", JList(<<>>))
             items == DictItems(children)
             results == [i \in 1..Len(items) |-> ParseMindmapItem(items[i])]
             parsed_children == [i \in 1..Len(items) |-> results[i].node]
         IN IF ~Iterable(children)
            THEN Raises("TypeError")
            ELSE IF FirstRaised(results) # ""
            THEN Raises(FirstRaised(results))
            ELSE Returned(OutNode(label, parsed_children # <<>>, parsed_children))

(* _build_tree_structure on any parsed object *)
BuildTreeStructure(data) ==
    LET title == JGet(data, "title", JStr("Mind Map"))
        found == Or(Or(JGet(data, "central_node", JNull),
                       JGet(data, "root", JNull)),
                    JGet(data, "nodes", JNull))
        central_node ==
            IF Truthy(found)
            THEN found
            ELSE IF "label" \in DOMAIN data.f
            THEN data
            ELSE JDict([k \in {"label", "children"} |->
                           IF k = "label" THEN title ELSE JList(<<>>)])
        nodes == ParseMindmapItem(central_node)
    IN [raised |-> nodes.raised, title |-> title, nodes |-> nodes.node]

(* The parsed objects given: nodes with and without a label, with children  *)
(* values of every JSON type, under each of the three keys                  *)
Scalars == {JNull, JNum("0"), JNum("1"), JStr(""), JStr("ab")}

Members(label_key, children) ==
    [k \in (IF label_key = "" THEN {} ELSE {label_key})
              \cup (IF children = <<>> THEN {} ELSE {"children"}) |->
        IF k = "children" THEN children[1] ELSE JStr("A")]

LabelKeys == {"", "label", "name", "text"}

LeafNodes == {JDict(Members(k, <<>>)) : k \in LabelKeys}

ListsOf(values) == {JList(items) : items \in SeqsUpTo(values, MaxItems)}

ChildrenValues(nodes) == Scalars \cup nodes \cup ListsOf(nodes \cup {JNull, JStr("ab")})

InnerNodes ==
    LeafNodes \cup
    {JDict(Members(k, <<c>>)) : k \in {"", "label"}, c \in ChildrenValues(LeafNodes)}

CentralValues ==
    Scalars \cup InnerNodes \cup ListsOf(LeafNodes)
        \cup {JDict(Members("label", <<JList(<<n>>)>>)) : n \in InnerNodes}

ParsedObjects ==
    {JDict([k \in keys |-> IF k \in {"title", "label"} THEN JStr("T") ELSE c]) :
        keys \in {{}, {"title"}, {"label"}, {"central_node"}, {"root"}, {"nodes"},
                  {"title", "central_node"}, {"label", "nodes"}},
        c \in CentralValues}

(* generate_mindmap_tree: an empty object gives no tree *)
NormalizeTree ==
    /\ ~norm.done
    /\ norm' = [norm EXCEPT
                  !.done = TRUE,
                  !.built = Truthy(norm.data),
                  !.result = IF Truthy(norm.data)
                             THEN BuildTreeStructure(norm.data)
                             ELSE @]
    /\ NormFrame

InitNorm ==
    /\ \E data \in ParsedObjects :
          norm = [data |-> data, done |-> FALSE, built |-> FALSE,
                  result |-> [raised |-> "", title |-> JNull,
                              nodes |-> OutNode(JNull, FALSE, <<>>)]]
    /\ NoWorkflow
    /\ NoSessions
    /\ NoSessionIdCalls
    /\ NoThreads
    /\ NoMetaCalls
    /\ NoRace
    /\ NoLlmCalls
    /\ NoTts
    /\ NoJson
    /\ NoImg
    /\ NoApi
    /\ NoTmp
    /\ NoUpl
    /\ NoEvs

NextNorm == NormalizeTree

SpecNorm == InitNorm /\ [][NextNorm]_vars

(* C37: mind-map normalization is total on parsed JSON objects: whatever    *)
(* the shape of the central_node/root/nodes value and of any children       *)
(* value, the result is a tree in which every node has a label and has a    *)
(* children key only when it has at least one child; it never raises.       *)
RECURSIVE ChildrenKeyOnlyWithChild(_)
ChildrenKeyOnlyWithChild(node) ==
    /\ node.has_children <=> node.children # <<>>
    /\ \A i \in 1..Len(node.children) : ChildrenKeyOnlyWithChild(node.children[i])

C37_NormalizationTotal ==
    (norm # <<>> /\ norm.built) =>
        /\ norm.result.raised = ""
        /\ ChildrenKeyOnlyWithChild(norm.result.nodes)

-----------------------------------------------------------------------------
(* Two requests, each with its own source list and user id, are given a     *)
(* session key.                                                             *)

KeyItems ==
    SidItems \cup
    {SidItem("url", Missing, "a|url:b", Missing, Missing),
     SidItem("url", Missing, "a|user:u1", Missing, Missing),
     SidItem("file", "a|url:b", Missing, Missing, Missing)}

KeyLists == UNION {[1..n -> KeyItems] : n \in 0..MaxSidSources}

(* user_id: absent (None), empty, given *)
KeyUsers == {Null, "", "u1"}

KeyCall(sources, user_id) ==
    /\ sid_calls' = Append(sid_calls,
                           [sources |-> sources, user_id |-> user_id,
                            key |-> generate_session_id(sources, user_id)])
    /\ UNCHANGED <<sid_user, wfvars, sessvars, singvars, layervars>>

FirstRequest ==
    /\ sid_calls = <<>>
    /\ \E sources \in KeyLists, user_id \in KeyUsers : KeyCall(sources, user_id)

SecondRequest ==
    /\ Len(sid_calls) = 1
    /\ \E sources \in KeyLists, user_id \in KeyUsers : KeyCall(sources, user_id)

InitKeys ==
    /\ sid_user = ""
    /\ sid_calls = <<>>
    /\ NoWorkflow
    /\ NoSessions
    /\ NoThreads
    /\ NoLayers

NextKeys == FirstRequest \/ SecondRequest

SpecKeys == InitKeys /\ [][NextKeys]_vars

(* C38: two requests whose normalized descriptor multisets differ, or whose *)
(* user ids differ, get different canonical strings; in particular items of *)
(* unrecognised type, a "|" inside a URL or file id, and an absent versus   *)
(* empty user id never make two different requests share a session key.     *)
Recognised(sources) ==
    SelectSeq(sources, LAMBDA src : Get(src, "type", "") \in {"file", "url", "text"})

OnlyUnrecognisedDiffer(a, b) ==
    /\ ~IsPermutation(a, b)
    /\ IsPermutation(Recognised(a), Recognised(b))

C38_KeysSeparateRequests ==
    \A i, j \in 1..Len(sid_calls) :
        (/\ sid_calls[i].key.raised = ""
         /\ sid_calls[j].key.raised = ""
         /\ \/ ~IsPermutation(Descriptors(sid_calls[i].sources),
                              Descriptors(sid_calls[j].sources))
            \/ sid_calls[i].user_id # sid_calls[j].user_id
            \/ OnlyUnrecognisedDiffer(sid_calls[i].sources, sid_calls[j].sources))
            => sid_calls[i].key # sid_calls[j].key

-----------------------------------------------------------------------------
(* The upload store: files named by their upload id and extension in the    *)
(* upload directory, the ids a StorageService instance has registered, and  *)
(* lookups by file id.  An id is "f_" and hex digits, written here as the   *)
(* sequence of its digits.                                                  *)

IdLen == 2

MaxQueryLen == 3

MaxUploads == 3

UploadFrame ==
    UNCHANGED <<wfvars, sessvars, sidvars, singvars,
                metavars, racevars, envvars, tts, jx,
                img, api, tmpf, norm, evs>>

HexDigits == {"a", "b"}

UploadIds == [1..IdLen -> HexDigits]

(* What a request can carry as file_id: ids, their prefixes, longer texts *)
FileIds == SeqsUpTo(HexDigits, MaxQueryLen)

(* upload_dir / f"{file_id}{ext}" *)
StoragePath(file_id) == file_id \o <<".pdf">>

NoMatch == <<"None">>

(* Path.glob: "*" matches any run of characters *)
RECURSIVE GlobMatch(_, _)
GlobMatch(pattern, name) ==
    IF pattern = <<>>
    THEN name = <<>>
    ELSE IF Head(pattern) = "*"
    THEN \/ GlobMatch(Tail(pattern), name)
         \/ name # <<>> /\ GlobMatch(pattern, Tail(name))
    ELSE /\ name # <<>>
         /\ Head(name) = Head(pattern)
         /\ GlobMatch(Tail(pattern), Tail(name))

(* The paths resolve_upload_path can return: the registered path, else the  *)
(* first match of the glob (the directory order is not fixed), else None    *)
resolve_upload_path_in(storage, file_id) ==
    IF file_id \in storage.uploads
    THEN {StoragePath(file_id)}
    ELSE LET matches == {path \in storage.upload_dir :
                            GlobMatch(file_id \o <<"*">>, path)}
         IN IF matches # {} THEN matches ELSE {NoMatch}

(* save_upload: a new id, the file written and registered *)
SaveUpload ==
    /\ Cardinality(upl.upload_dir) < MaxUploads
    /\ \E file_id \in UploadIds :
          /\ StoragePath(file_id) \notin upl.upload_dir
          /\ upl' = [upl EXCEPT
                        !.upload_dir = @ \cup {StoragePath(file_id)},
                        !.uploads = @ \cup {file_id}]
    /\ UploadFrame

(* StorageService(): a new instance has registered nothing *)
NewStorageService ==
    /\ upl.uploads # {}
    /\ upl' = [upl EXCEPT !.uploads = {}]
    /\ UploadFrame

ResolveUploadPath ==
    /\ \E file_id \in FileIds :
          \E path \in resolve_upload_path_in(upl, file_id) :
              upl' = [upl EXCEPT !.file_id = file_id, !.returned = path,
                                 !.resolved = TRUE]
    /\ UploadFrame

InitUpload ==
    /\ upl = [upload_dir |-> {}, uploads |-> {}, file_id |-> <<>>,
              returned |-> NoMatch, resolved |-> FALSE]
    /\ NoWorkflow
    /\ NoSessions
    /\ NoSessionIdCalls
    /\ NoThreads
    /\ NoMetaCalls
    /\ NoRace
    /\ NoLlmCalls
    /\ NoTts
    /\ NoJson
    /\ NoImg
    /\ NoApi
    /\ NoTmp
    /\ NoNorm
    /\ NoEvs

NextUpload == SaveUpload \/ NewStorageService \/ ResolveUploadPath

SpecUpload == InitUpload /\ [][NextUpload]_vars

(* C39: resolve_upload_path(file_id) returns either nothing or the stored   *)
(* path of the upload whose id is exactly file_id: for no file_id, also one *)
(* that is a proper prefix of another upload's id, does it return a file    *)
(* saved under a different upload id.                                       *)
C39_ExactUploadOnly ==
    (upl # <<>> /\ upl.resolved) =>
        \/ upl.returned = NoMatch
        \/ upl.returned = StoragePath(upl.file_id)

-----------------------------------------------------------------------------
(* GenerationService.generate: an async generator.  An action is the code   *)
(* between two yields; what _collect_sources, LLMService and run_workflow   *)
(* do is not modelled beyond returning or raising.                          *)

EventsFrame ==
    UNCHANGED <<wfvars, sessvars, sidvars, singvars,
                metavars, racevars, envvars, tts, jx,
                img, api, tmpf, norm, upl>>

ProgressEvent(status, progress) ==
    [event |-> "ProgressEvent", status |-> status, progress |-> progress,
     code |-> ""]

CompleteEvent ==
    [event |-> "CompleteEvent", status |-> "complete", progress |-> 100,
     code |-> ""]

ErrorEvent(code) ==
    [event |-> "ErrorEvent", status |-> "error", progress |-> 0, code |-> code]

Yield(event, next) ==
    evs' = [evs EXCEPT !.events = Append(@, event), !.pc = next]

(* except Exception as e: yield ErrorEvent(code="GENERATION_ERROR") *)
HandleException == Yield(ErrorEvent("GENERATION_ERROR"), "end")

(* What run_workflow returns *)
WorkflowOutcomes ==
    {[errors |-> e, output_path |-> o] :
        e \in {<<>>, <<"e1">>, <<"e1", "e2">>}, o \in {"", "out.pdf"}}

GenerateCalls ==
    {[output_format |-> f, has_base_output_dir |-> b] :
        f \in {"pdf", "pptx"}, b \in BOOLEAN}

(* Faulty variant: the generator goes on after the workflow's error event *)
after_workflow_error_continue(errors) == "phase4"

(* if errors: yield ErrorEvent(...); return *)
after_workflow_error(errors) == IF errors # <<>> THEN "end" ELSE "phase4"

(* yield ProgressEvent(PARSING, 5) *)
GenerateStart ==
    /\ evs.pc = "start"
    /\ Yield(ProgressEvent("parsing", 5), "collect_sources")
    /\ EventsFrame

(* await self._collect_sources(request); yield ProgressEvent(PARSING, 20) *)
GenerateCollect ==
    /\ evs.pc = "collect_sources"
    /\ \/ Yield(ProgressEvent("parsing", 20), "phase2")
       \/ HandleException
    /\ EventsFrame

(* The yields that follow one another with no call that can raise: 30, 50,  *)
(* 80, 90 and 95                                                            *)
GenerateProgress ==
    /\ \/ evs.pc = "phase2" /\ Yield(ProgressEvent("transforming", 30), "configure")
       \/ evs.pc = "phase3" /\ Yield(ProgressEvent("generating_images", 50), "run_workflow")
       \/ evs.pc = "phase4" /\ Yield(ProgressEvent("generating_output", 80), "built")
       \/ evs.pc = "built" /\ Yield(ProgressEvent("generating_output", 90), "phase5")
       \/ evs.pc = "phase5" /\ Yield(ProgressEvent("uploading", 95), "finalize")
    /\ EventsFrame

(* _configure_api_key, LLMService(...); yield ProgressEvent(.., 40) *)
GenerateConfigure ==
    /\ evs.pc = "configure"
    /\ \/ Yield(ProgressEvent("transforming", 40), "phase3")
       \/ HandleException
    /\ EventsFrame

(* await run_in_executor(run_workflow); yield ProgressEvent(.., 70) *)
GenerateRunWorkflow ==
    /\ evs.pc = "run_workflow"
    /\ \/ \E result \in WorkflowOutcomes :
             evs' = [evs EXCEPT
                        !.events = Append(@, ProgressEvent("generating_images", 70)),
                        !.pc = "check_errors",
                        !.result = result,
                        !.returned = TRUE]
       \/ HandleException
    /\ EventsFrame

(* errors = result.get("errors", []): the error event and return, or on to  *)
(* phase 4                                                                  *)
GenerateCheckErrors ==
    /\ evs.pc = "check_errors"
    /\ IF evs.result.errors # <<>>
       THEN Yield(ErrorEvent("WORKFLOW_ERROR"),
                  after_workflow_error(evs.result.errors))
       ELSE evs' = [evs EXCEPT !.pc = after_workflow_error(evs.result.errors)]
    /\ EventsFrame

(* The download url, the file path relative to storage.base_output_dir (an  *)
(* attribute the StorageService of storage.py does not have), the counts;   *)
(* yield CompleteEvent                                                      *)
GenerateFinalize ==
    /\ evs.pc = "finalize"
    /\ IF evs.result.output_path # "" /\ ~evs.call.has_base_output_dir
       THEN HandleException
       ELSE \/ Yield(CompleteEvent, "end")
            \/ HandleException
    /\ EventsFrame

(* The generator is exhausted *)
GenerateEnd ==
    /\ evs.pc = "end"
    /\ evs' = [evs EXCEPT !.pc = "closed"]
    /\ EventsFrame

InitEvents ==
    /\ \E c \in GenerateCalls :
          evs = [pc |-> "start", call |-> c, events |-> <<>>,
                 result |-> [errors |-> <<>>, output_path |-> ""],
                 returned |-> FALSE]
    /\ NoWorkflow
    /\ NoSessions
    /\ NoSessionIdCalls
    /\ NoThreads
    /\ NoMetaCalls
    /\ NoRace
    /\ NoLlmCalls
    /\ NoTts
    /\ NoJson
    /\ NoImg
    /\ NoApi
    /\ NoTmp
    /\ NoNorm
    /\ NoUpl

NextEvents ==
    \/ GenerateStart
    \/ GenerateCollect
    \/ GenerateProgress
    \/ GenerateConfigure
    \/ GenerateRunWorkflow
    \/ GenerateCheckErrors
    \/ GenerateFinalize
    \/ GenerateEnd

SpecEvents == InitEvents /\ [][NextEvents]_vars

(* C40: every GenerationService.generate event stream ends with exactly one *)
(* terminal event, a CompleteEvent or an ErrorEvent, and emits nothing      *)
(* after it; the progress values of its ProgressEvents never decrease; a    *)
(* workflow result with non-empty errors yields an ErrorEvent and never a   *)
(* CompleteEvent.                                                           *)
Terminal(e) == e.event \in {"CompleteEvent", "ErrorEvent"}

TerminalIndexes == {i \in 1..Len(evs.events) : Terminal(evs.events[i])}

C40_OneTerminalEvent ==
    evs # <<>> =>
        /\ TerminalIndexes \subseteq {Len(evs.events)}
        /\ evs.pc \in {"end", "closed"} <=> TerminalIndexes # {}
        /\ \A i, j \in 1..Len(evs.events) :
              (/\ i < j
               /\ evs.events[i].event = "ProgressEvent"
               /\ evs.events[j].event = "ProgressEvent")
                  => evs.events[i].progress <= evs.events[j].progress
        /\ (evs.returned /\ evs.result.errors # <<>>) =>
              /\ \A i \in 1..Len(evs.events) :
                    evs.events[i].event # "CompleteEvent"
              /\ evs.pc = "closed" =>
                    evs.events[Len(evs.events)] = ErrorEvent("WORKFLOW_ERROR")

(* A stream closed after the workflow reported errors *)
C40_Witness ==
    /\ evs # <<>>
    /\ evs.pc = "closed"
    /\ evs.returned
    /\ Len(evs.result.errors) = 2
    /\ Len(evs.events) = 7
    /\ evs.events[7] = ErrorEvent("WORKFLOW_ERROR")

====
